---- MODULE Spec2Model ----
(***************************************************************************)
(* peer-lease: leases of peer identifiers per document id, recycled under  *)
(* a caller-supplied version order, protected by a localStorage-backed     *)
(* mutex (src/src/lock.ts) and a lock-free pending-release buffer          *)
(* (src/src/peer-lease.ts, the revision that starts at line 425).          *)
(*                                                                         *)
(* A process is one JavaScript event loop (a tab).  A task is one call     *)
(* chain inside a process: acquirePeerId followed by release on the lease  *)
(* it got, or one resetPeerLeaseState.  Every storage access is one step;  *)
(* cpu[p] names the task that is inside a synchronous block of process p,  *)
(* so tasks of one process interleave only at an await, while tasks of     *)
(* different processes interleave at every storage access.                 *)
(***************************************************************************)
EXTENDS Integers, Sequences, FiniteSets, TLC

(* ------------------------------ bounds -------------------------------- *)
NumTasks == 4
NumProcs == 2
NumDocs == 2
NumIds == 2
MaxVersion == 3
MaxTicks == 2
MaxEvents == 4

Tasks == 1..NumTasks
Procs == 1..NumProcs
Docs == 1..NumDocs
Ids == 1..NumIds
Versions == 1..MaxVersion

(* ------------------------- program constants -------------------------- *)
LOCK_TTL_MS == 10000
ACQUIRE_TIMEOUT_MS == 5000
MAX_GENERATION_ATTEMPTS == 32
LEASE_STALE_AFTER_MS == 86400000
\* HEARTBEAT_INTERVAL_FRACTION = 0.3, kept as tenths
HEARTBEAT_INTERVAL_TENTHS == 3

Max(a, b) == IF a >= b THEN a ELSE b

\* startHeartbeat: Math.max(1, Math.floor(lockTtlMs * fraction))
HeartbeatInterval == Max(1, (LOCK_TTL_MS * HEARTBEAT_INTERVAL_TENTHS) \div 10)

(* --------------------------- optional values -------------------------- *)
\* A storage key is absent (null) or holds one value.
None == << >>
Some(v) == << v >>
IsSome(o) == o # << >>
Get(o) == o[1]

(* ------------------------------ versions ------------------------------ *)
\* A version is an opaque string to the library; the caller's comparator
\* orders it.  Here a version is the set of bits of its number, ordered by
\* inclusion, as frontiers are: 1 and 2 are incomparable, both are below 3.
RECURSIVE Bits(_)
Bits(v) == IF v = 0 THEN {} ELSE
           LET rest == Bits(v \div 2)
           IN  {b + 1 : b \in rest} \cup (IF v % 2 = 1 THEN {0} ELSE {})

\* cmpVersion(a, b) returned undefined (or null)
Incomparable(a, b) ==
    /\ ~ (Bits(a) \subseteq Bits(b))
    /\ ~ (Bits(b) \subseteq Bits(a))

\* cmpVersion(a, b) when it is defined: positive means a is newer than b
cmpVersion(a, b) ==
    IF a = b THEN 0
    ELSE IF Bits(b) \subseteq Bits(a) THEN 1 ELSE -1

(* ---------------------- CachedPeerId sequences ------------------------ *)
CachedPeerId(id, version) == [id |-> id, version |-> version]

IdsOf(seq) == {seq[i].id : i \in DOMAIN seq}

\* Array.prototype.findIndex on the id, 1-based; 0 when there is none
FindIndex(seq, id) ==
    IF \E i \in DOMAIN seq : seq[i].id = id
    THEN CHOOSE i \in DOMAIN seq :
            /\ seq[i].id = id
            /\ \A j \in 1..(i - 1) : seq[j].id # id
    ELSE 0

\* Array.prototype.splice(index, 1)
Splice(seq, i) == SubSeq(seq, 1, i - 1) \o SubSeq(seq, i + 1, Len(seq))

\* Map.prototype.set on a Map<id, version> kept as its entries in insertion
\* order: an existing key keeps its place and takes the new value.
MapSet(m, id, version) ==
    IF FindIndex(m, id) > 0
    THEN [m EXCEPT ![FindIndex(m, id)] = CachedPeerId(id, version)]
    ELSE Append(m, CachedPeerId(id, version))

\* `for (const e of entries) dedup.set(e.id, e.version)` then
\* Array.from(dedup.entries())
RECURSIVE DedupFrom(_, _)
DedupFrom(m, seq) ==
    IF seq = << >> THEN m
    ELSE DedupFrom(MapSet(m, Head(seq).id, Head(seq).version), Tail(seq))

Dedup(seq) == DedupFrom(<< >>, seq)

\* delete state.active[id]
DeleteKey(f, id) == [k \in (DOMAIN f) \ {id} |-> f[k]]

\* state.active[id] = info
SetKey(f, id, info) ==
    [k \in (DOMAIN f) \cup {id} |-> IF k = id THEN info ELSE f[k]]

ActiveLeaseInfo(leasedAt, version) == [leasedAt |-> leasedAt, version |-> version]

LeaseState(available, active) == [available |-> available, active |-> active]

EmptyState == LeaseState(<< >>, << >>)

(* ------------------------- lease state functions ---------------------- *)
\* cleanupState: an active entry of age >= 24h is deleted, not recycled
cleanupState(state, time) ==
    LeaseState(state.available,
               [k \in {i \in DOMAIN state.active :
                          time - state.active[i].leasedAt < LEASE_STALE_AFTER_MS}
                   |-> state.active[k]])

\* The active ids put into available as well, instead of being skipped
normalizeState_Merged(state) ==
    LET ids == SelectSeq([i \in 1..NumIds |-> i],
                         LAMBDA i : i \in DOMAIN state.active)
    IN  LeaseState(state.available \o
                       [k \in 1..Len(ids) |->
                           CachedPeerId(ids[k], state.active[ids[k]].version)],
                   state.active)

\* normalizeState: available loses the ids that are active and is made
\* unique by id (Map insertion order, last version)
normalizeState(state) ==
    LeaseState(Dedup(SelectSeq(state.available,
                               LAMBDA e : e.id \notin DOMAIN state.active)),
               state.active)

\* The loop without its push: each pending id only leaves active
RECURSIVE DrainFold_NoPush(_, _)
DrainFold_NoPush(state, entries) ==
    IF entries = << >> THEN state
    ELSE DrainFold_NoPush(LeaseState(state.available,
                                     DeleteKey(state.active, Head(entries).id)),
                          Tail(entries))

\* The loop without its splice: a prior available entry of the id stays
RECURSIVE DrainFold_Append(_, _)
DrainFold_Append(state, entries) ==
    IF entries = << >> THEN state
    ELSE DrainFold_Append(LeaseState(Append(state.available, Head(entries)),
                                     DeleteKey(state.active, Head(entries).id)),
                          Tail(entries))

\* The loop of drainPendingReleases over dedup.entries(): each pending id
\* leaves active and is moved to the end of available with its version.
RECURSIVE DrainFold(_, _)
DrainFold(state, entries) ==
    IF entries = << >> THEN state
    ELSE LET e == Head(entries)
             i == FindIndex(state.available, e.id)
             rest == IF i > 0 THEN Splice(state.available, i)
                     ELSE state.available
         IN  DrainFold(LeaseState(Append(rest, e), DeleteKey(state.active, e.id)),
                       Tail(entries))

\* flushRelease's mutator: the id leaves active; its available entry is
\* replaced in place, or pushed.
FlushMutator(state, value, version) ==
    LET i == FindIndex(state.available, value)
    IN  LeaseState(IF i > 0
                   THEN [state.available EXCEPT ![i] = CachedPeerId(value, version)]
                   ELSE Append(state.available, CachedPeerId(value, version)),
                   DeleteKey(state.active, value))

\* The guard with an undefined comparison taken as a match
Recyclable_Lenient(version, entry) ==
    \/ Incomparable(version, entry.version)
    \/ cmpVersion(version, entry.version) >= 0

\* The guard of the recycle scan: `cmp != null && cmp >= 0`
Recyclable(version, entry) ==
    /\ ~ Incomparable(version, entry.version)
    /\ cmpVersion(version, entry.version) >= 0

\* The scan without its break: the last index whose entry passes the guard
RecycleIndex_Last(available, version) ==
    IF \E i \in DOMAIN available : Recyclable(version, available[i])
    THEN CHOOSE i \in DOMAIN available :
            /\ Recyclable(version, available[i])
            /\ \A j \in (i + 1)..Len(available) : ~ Recyclable(version, available[j])
    ELSE 0

\* The recycle scan of acquirePeerId: the first index whose entry passes the
\* guard, 0 when the loop ends without a break.
RecycleIndex(available, version) ==
    IF \E i \in DOMAIN available : Recyclable(version, available[i])
    THEN CHOOSE i \in DOMAIN available :
            /\ Recyclable(version, available[i])
            /\ \A j \in 1..(i - 1) : ~ Recyclable(version, available[j])
    ELSE 0

\* The empty string, which isNonEmptyString rejects
NoId == 0

isNonEmptyString_Any(value) == TRUE

\* isNonEmptyString(value), of an id or a version
isNonEmptyString(value) == value # NoId

\* What the caller's genFn does in one acquire: it returns `first` on its
\* first `repeat` calls and `next` from then on (NoId: the empty string).
\* A constant generator has first = next.
GenScripts ==
    {[first |-> f, repeat |-> k, next |-> c] :
        f \in Ids \cup {NoId},
        k \in {1, MAX_GENERATION_ATTEMPTS - 1, MAX_GENERATION_ATTEMPTS},
        c \in Ids \cup {NoId}}

\* genFn() on its call number attempt + 1
genFn(script, attempt) ==
    IF attempt < script.repeat THEN script.first ELSE script.next

\* The first candidate, whether it is in `used` or not
generateUniquePeerId_Unchecked(script, used, attempt) ==
    [id |-> genFn(script, attempt),
     error |-> IF genFn(script, attempt) = NoId THEN "empty" ELSE "",
     calls |-> attempt + 1]

\* generateUniquePeerId, from attempt `attempt` on: the id it returns (NoId when
\* it throws), the error it throws, and how often genFn has been called.
RECURSIVE generateUniquePeerId(_, _, _)
generateUniquePeerId(script, used, attempt) ==
    IF attempt < MAX_GENERATION_ATTEMPTS
    THEN LET candidate == genFn(script, attempt)
         IN  IF candidate = NoId
             THEN [id |-> NoId, error |-> "empty", calls |-> attempt + 1]
             ELSE IF candidate \notin used
                  THEN [id |-> candidate, error |-> "", calls |-> attempt + 1]
                  ELSE generateUniquePeerId(script, used, attempt + 1)
    ELSE [id |-> NoId, error |-> "duplicate", calls |-> attempt]

\* The mutator of acquirePeerId on the drained, cleaned state at time `time`:
\* recycle the first entry that passes the guard, else mint.
AcquireMutator(state, version, script, time) ==
    LET i == RecycleIndex(state.available, version)
        used == IdsOf(state.available) \cup DOMAIN state.active
        gen == generateUniquePeerId(script, used, 0)
        peerId == IF i > 0 THEN state.available[i].id ELSE gen.id
        available == IF i > 0 THEN Splice(state.available, i) ELSE state.available
    IN  [peerId |-> peerId,
         error |-> IF i > 0 THEN "" ELSE gen.error,
         genCalls |-> IF i > 0 THEN 0 ELSE gen.calls,
         state |-> IF peerId = NoId THEN LeaseState(available, state.active)
                   ELSE LeaseState(available,
                                   SetKey(state.active, peerId,
                                          ActiveLeaseInfo(time, version)))]

\* finalizePendingReleases that acknowledges nothing: the key is left as read
finalizePendingReleases_Keep(currentRaw, pending) == None

\* The key removed whenever it is there
finalizePendingReleases_Clear(currentRaw, pending) ==
    IF IsSome(currentRaw) THEN Some(<< >>) ELSE None

\* finalizePendingReleases after the key was read as currentRaw (not null):
\* what is left once the folded entries (same id and version) are removed.
RECURSIVE RemoveFolded(_, _)
RemoveFolded(remaining, entries) ==
    IF entries = << >> THEN remaining
    ELSE LET e == Head(entries)
             hit == {i \in DOMAIN remaining : remaining[i] = e}
             i == IF hit = {} THEN 0
                  ELSE CHOOSE k \in hit : \A j \in hit : k <= j
         IN  RemoveFolded(IF i > 0 THEN Splice(remaining, i) ELSE remaining,
                          Tail(entries))

(* ------------------------------- state -------------------------------- *)
VARIABLES
    now,         \* Date.now()
    ticks,       \* how often the clock has advanced
    stateKey,    \* storage: doc -> the LeaseState under getStateKey(doc)
    pendingKey,  \* storage: doc -> the pending releases under getPendingKey(doc)
    lockKey,     \* storage: doc -> the LockRecord under getLockKey(doc)
    fenceKey,    \* storage: doc -> the counter under getFenceKey(doc)
    proc,        \* task -> the process it runs in
    docOf,       \* task -> the docId of its calls
    alive,       \* process -> it has not terminated
    cpu,         \* process -> the task inside a synchronous block (0: none,
                 \*            -1: a heartbeat callback)
    pc,          \* task -> where its call chain stands
    call,        \* task -> the locals of its current call
    lease,       \* task -> its PeerIdLease
    heartbeat,   \* <<process, doc>> -> LocalStorageMutex.heartbeat (a token)
    intervals,   \* <<process, doc>> -> the live setInterval timers
    hb,          \* process -> the locals of its running heartbeat callback
    released,    \* history: <<doc, id>> -> version of the latest release call
    later,       \* history: task -> its latest call began after a process
                 \*          terminated ("running"), and has completed ("done")
    trail,       \* history: task -> what its current runExclusive call and
                 \*          the release calls on its lease have done
    track,       \* history: doc -> the highest fence written to its lock
                 \*          record, and where its latest reset stands
    page         \* the closure of attachPeerLeaseLifecycle on the lease of
                 \* PageTask, the document it reads, and the history of its
                 \* events

\* The storage keys of a document id; a key is named by the document whose
\* id it ends with.
getStateKey(docId) == docId
\* One pending key for every document
getPendingKey_Shared(docId) == 1

getPendingKey(docId) == docId
getLockKey(docId) == docId
getFenceKey(docId) == docId

storeVars == <<stateKey, pendingKey, lockKey, fenceKey>>
timeVars == <<now, ticks>>
placeVars == <<proc, docOf, alive, page>>
hbVars == <<heartbeat, intervals, hb>>
histVars == <<released, later, trail, track>>
vars == <<now, ticks, stateKey, pendingKey, lockKey, fenceKey, proc, docOf,
          alive, cpu, pc, call, lease, heartbeat, intervals, hb, released, later,
          trail, track, page>>

LockRecord(token, expiresAt, fence) ==
    [token |-> token, expiresAt |-> expiresAt, fence |-> fence]

NoPending == [snapshot |-> None, entries |-> << >>]

NoCall ==
    [op |-> "none", version |-> 0, runs |-> 0, deadline |-> 0, t0 |-> 0,
     record |-> None, fence |-> 0, state |-> EmptyState, pending |-> NoPending,
     peerId |-> NoId, genCalls |-> 0, error |-> "", finalize |-> None,
     stage |-> << >>]

\* The locals of a call that has ended: only the count of runExclusive calls
\* (the token counter) outlives it.  A local that is not read again is
\* likewise put back to its initial value by the step that reads it last.
EndCall(c) == [NoCall EXCEPT !.runs = c.runs]

NoLease == [value |-> NoId, releaseState |-> "idle", releaseTask |-> FALSE]

\* History of a task: its runExclusive call has invoked the callback (ran),
\* has written a lock record (wrote), has found the lock held by another
\* unexpired token at every tryAcquire so far (allHeld), has gone on from
\* the expired record of a terminated process (took) and how it ended
\* (end); release was invoked with a valid version on its lease (asked); a
\* further release call was given the existing release task (again); a
\* release call with an empty version was rejected, and the handle's
\* release state then (empty); how often the
\* lease's id was staged, counted up to two (stages); a flush of the lease
\* has thrown since the id was last staged (failed).
NoTrail ==
    [ran |-> FALSE, wrote |-> FALSE, allHeld |-> TRUE, took |-> FALSE, end |-> "",
     asked |-> FALSE, again |-> FALSE, empty |-> "", stages |-> 0,
     failed |-> FALSE]

\* The history of a task as a runExclusive call begins
Entering(tr) ==
    [tr EXCEPT !.ran = FALSE, !.wrote = FALSE, !.allHeld = TRUE, !.took = FALSE,
               !.end = ""]

\* History of a document: no fence written, no reset begun
NoTrack == [fence |-> 0, reset |-> "no"]

\* The lifecycle hook before attachPeerLeaseLifecycle: no listener
\* (attached), stagedVersion undefined, the document at its first frontiers
\* and visible; history: no event yet (events), no release invoked by the
\* hook (calls) and the version of the latest such call (last), the
\* frontiers at the first hidden visibilitychange since the last pageshow
\* (firstHidden), the frontiers at the first event since the last pageshow
\* that was a pagehide or a hidden visibilitychange with the handle not
\* released (firstStaged), the type of the latest event (event).
NoPage ==
    [attached |-> "no", stagedVersion |-> NoId, frontiers |-> 1, hidden |-> FALSE,
     events |-> 0, event |-> "", calls |-> 0, last |-> NoId,
     firstHidden |-> NoId, firstStaged |-> NoId]

NoHb == [doc |-> 0, token |-> << >>, pc |-> "idle", t0 |-> 0, fence |-> 0]

\* randomToken(): unique per runExclusive call
Token(t) == <<t, call[t].runs>>

\* Task t is at `label` and may run: its process is alive and no other task
\* of the process is inside a synchronous block.
Runs(t, label) ==
    /\ pc[t] = label
    /\ alive[proc[t]]
    /\ cpu[proc[t]] \in {0, t}

\* Tasks of one process on one document are interchangeable until they
\* start: they start in the order of their numbers.
InTurn(t) ==
    \A u \in 1..(t - 1) :
        proc[u] = proc[t] /\ docOf[u] = docOf[t] => pc[u] # "idle"

Hold(t) == cpu' = [cpu EXCEPT ![proc[t]] = t]
Yield(t) == cpu' = [cpu EXCEPT ![proc[t]] = 0]

InitWith(active, procs, docs) ==
    /\ now = 0
    /\ ticks = 0
    /\ stateKey = [d \in Docs |-> None]
    /\ pendingKey = [d \in Docs |-> None]
    /\ lockKey = [d \in Docs |-> None]
    /\ fenceKey = [d \in Docs |-> None]
    /\ proc \in procs
    /\ docOf \in docs
    /\ alive = [p \in Procs |-> TRUE]
    /\ cpu = [p \in Procs |-> 0]
    /\ pc = [t \in Tasks |-> IF t \in active THEN "idle" ELSE "off"]
    /\ call = [t \in Tasks |-> NoCall]
    /\ lease = [t \in Tasks |-> NoLease]
    /\ heartbeat = [k \in Procs \X Docs |-> None]
    /\ intervals = [k \in Procs \X Docs |-> {}]
    /\ hb = [p \in Procs |-> NoHb]
    /\ released = [k \in Docs \X Ids |-> 0]
    /\ later = [t \in Tasks |-> "no"]
    /\ trail = [t \in Tasks |-> NoTrail]
    /\ track = [d \in Docs |-> NoTrack]
    /\ page = NoPage

(* ------------------------ LocalStorageMutex --------------------------- *)
\* startHeartbeat(token): a new interval timer replaces the field; a timer
\* the field still named is not cleared.
StartHeartbeat(t) ==
    /\ heartbeat' = [heartbeat EXCEPT ![<<proc[t], docOf[t]>>] = Some(Token(t))]
    /\ intervals' = [intervals EXCEPT ![<<proc[t], docOf[t]>>] =
                        @ \cup {[token |-> Token(t), due |-> now + HeartbeatInterval]}]

\* stopHeartbeat(): clears the timer the field names, if any
StopHeartbeat(p, d) ==
    /\ heartbeat' = [heartbeat EXCEPT ![<<p, d>>] = None]
    /\ intervals' = [intervals EXCEPT ![<<p, d>>] =
                        IF IsSome(heartbeat[<<p, d>>])
                        THEN {i \in @ : i.token # Get(heartbeat[<<p, d>>])}
                        ELSE @]

\* readLock() once the key is read: a record whose token is not a string
\* reads as null (and the key is removed)
Malformed(stored) == IsSome(stored) /\ Get(stored).token[1] \notin Tasks

readLock(stored) == IF Malformed(stored) THEN None ELSE stored

\* The guard left out: tryAcquire goes on to write whatever it has read
HeldByOther_Skipped(record, token, time) == FALSE

\* The guard without the expiry comparison
HeldByOther_Forever(record, token, time) ==
    /\ IsSome(record)
    /\ Get(record).token # token

\* The guard with the expiry comparison reversed
HeldByOther_Reversed(record, token, time) ==
    /\ IsSome(record)
    /\ Get(record).token # token
    /\ Get(record).expiresAt < time

\* The first guard of tryAcquire: the lock is held by another, unexpired token
HeldByOther(record, token, time) ==
    /\ IsSome(record)
    /\ Get(record).token # token
    /\ Get(record).expiresAt > time

\* bumpFence(previousFence) up to its write: Math.max(baseline, previous) + 1
NextFence(raw, previousFence) ==
    Max(IF IsSome(raw) THEN Get(raw) ELSE 0, previousFence) + 1

\* History: the lock record is that of another token and has not expired
LockedByAnother(record, token, time) ==
    /\ record # None
    /\ record[1].token # token
    /\ time < record[1].expiresAt

\* The loop without its deadline check: it always waits and retries
AfterFailedTry_NoDeadline(t) ==
    /\ trail' = [trail EXCEPT
                    ![t].allHeld = @ /\ LockedByAnother(lockKey[getLockKey(docOf[t])],
                                                       Token(t), now)]
    /\ pc' = [pc EXCEPT ![t] = "waitBeforeRetry"]
    /\ call' = call
    /\ lease' = lease
    /\ later' = later

\* The timeout of a flush that leaves the handle as it is: staged, with its
\* release task
AfterFailedTry_Staged(t) ==
    /\ trail' = [trail EXCEPT
                    ![t].allHeld = @ /\ LockedByAnother(lockKey[getLockKey(docOf[t])],
                                                       Token(t), now),
                    ![t].end = IF now >= call[t].deadline THEN "timeout" ELSE @,
                    ![t].failed = IF now >= call[t].deadline /\ call[t].op = "release"
                                  THEN TRUE ELSE @]
    /\ IF now >= call[t].deadline
       THEN /\ pc' = [pc EXCEPT ![t] = IF call[t].op = "release" THEN "held"
                                       ELSE "failed"]
            /\ call' = [call EXCEPT ![t] = EndCall(@)]
       ELSE /\ pc' = [pc EXCEPT ![t] = "waitBeforeRetry"]
            /\ call' = call
    /\ lease' = lease
    /\ later' = [later EXCEPT ![t] = IF now >= call[t].deadline THEN "no" ELSE @]

\* runExclusive after tryAcquire returned false: the deadline check, then
\* waitBeforeRetry.  A timeout ends the call: acquire and reset reject, a
\* release rejects and its handle goes back to idle.
AfterFailedTry(t) ==
    /\ trail' = [trail EXCEPT
                    ![t].allHeld = @ /\ LockedByAnother(lockKey[getLockKey(docOf[t])],
                                                       Token(t), now),
                    ![t].end = IF now >= call[t].deadline THEN "timeout" ELSE @,
                    ![t].failed = IF now >= call[t].deadline /\ call[t].op = "release"
                                  THEN TRUE ELSE @]
    /\ IF now >= call[t].deadline
       THEN /\ pc' = [pc EXCEPT ![t] = IF call[t].op = "release" THEN "held"
                                       ELSE "failed"]
            /\ call' = [call EXCEPT ![t] = EndCall(@)]
            /\ lease' = [lease EXCEPT ![t] =
                            IF call[t].op = "release"
                            THEN [@ EXCEPT !.releaseState = "idle",
                                           !.releaseTask = FALSE]
                            ELSE @]
            /\ later' = [later EXCEPT ![t] = "no"]
       ELSE /\ pc' = [pc EXCEPT ![t] = "waitBeforeRetry"]
            /\ call' = call
            /\ lease' = lease
            /\ later' = later

\* The lock record of document d was written by a process that has
\* terminated, and the clock has reached its expiresAt
CrashedHolderExpired(d) ==
    /\ IsSome(readLock(lockKey[getLockKey(d)]))
    /\ ~ alive[proc[Get(lockKey[getLockKey(d)]).token[1]]]
    /\ now >= Get(lockKey[getLockKey(d)]).expiresAt

\* tryAcquire: readLock (which removes a malformed record) and the guard.
\* It runs when runExclusive is entered and whenever waitBeforeRetry has
\* resolved (its timer, a local waiter signal, a storage event or a
\* broadcast).
TryAcquireRead(t) ==
    /\ Runs(t, "tryAcquire") \/ Runs(t, "waitBeforeRetry")
    /\ lockKey' = [lockKey EXCEPT ![getLockKey(docOf[t])] = readLock(@)]
    /\ IF HeldByOther(readLock(lockKey[getLockKey(docOf[t])]), Token(t), now)
       THEN /\ AfterFailedTry(t)
            /\ Yield(t)
       ELSE /\ pc' = [pc EXCEPT ![t] = "bumpFenceGet"]
            /\ call' = [call EXCEPT ![t].t0 = now,
                                    ![t].record = readLock(lockKey[getLockKey(docOf[t])])]
            /\ lease' = lease
            /\ later' = later
            /\ trail' = [trail EXCEPT
                            ![t].allHeld = @ /\ LockedByAnother(
                                                   lockKey[getLockKey(docOf[t])],
                                                   Token(t), now),
                            ![t].took = CrashedHolderExpired(docOf[t])]
            /\ Hold(t)
    /\ UNCHANGED <<timeVars, stateKey, pendingKey, fenceKey, placeVars, hbVars,
                   released, track>>

\* bumpFence: getItem(fenceKey)
BumpFenceGet(t) ==
    /\ Runs(t, "bumpFenceGet")
    /\ pc' = [pc EXCEPT ![t] = "bumpFenceSet"]
    /\ call' = [call EXCEPT ![t].fence =
                   NextFence(fenceKey[getFenceKey(docOf[t])],
                             IF IsSome(call[t].record)
                             THEN Get(call[t].record).fence ELSE 0),
                            ![t].record = None]
    /\ Hold(t)
    /\ UNCHANGED <<timeVars, storeVars, placeVars, lease, hbVars, histVars>>

\* bumpFence: setItem(fenceKey, String(next))
BumpFenceSet(t) ==
    /\ Runs(t, "bumpFenceSet")
    /\ fenceKey' = [fenceKey EXCEPT ![getFenceKey(docOf[t])] = Some(call[t].fence)]
    /\ pc' = [pc EXCEPT ![t] = "writeLock"]
    /\ Hold(t)
    /\ UNCHANGED <<timeVars, stateKey, pendingKey, lockKey, placeVars, call,
                   lease, hbVars, histVars>>

\* tryAcquire: writeLock(nextRecord)
WriteLock(t) ==
    /\ Runs(t, "writeLock")
    /\ lockKey' = [lockKey EXCEPT ![getLockKey(docOf[t])] =
                      Some(LockRecord(Token(t), call[t].t0 + LOCK_TTL_MS,
                                      call[t].fence))]
    /\ call' = [call EXCEPT ![t].fence = 0]
    /\ pc' = [pc EXCEPT ![t] = "confirmLock"]
    /\ trail' = [trail EXCEPT ![t].wrote = TRUE]
    /\ track' = [track EXCEPT ![docOf[t]].fence = Max(@, call[t].fence)]
    /\ Hold(t)
    /\ UNCHANGED <<timeVars, stateKey, pendingKey, fenceKey, placeVars, lease,
                   hbVars, released, later>>

\* The read back left out: the callback starts whatever the record holds
Confirmed_Any(stored, token) == TRUE

\* The last line of tryAcquire: the record read back carries the token
Confirmed(stored, token) ==
    /\ IsSome(stored)
    /\ Get(stored).token = token

\* tryAcquire: the read back; on success startHeartbeat and the callback
\* starts in the same synchronous block.
ConfirmLock(t) ==
    /\ Runs(t, "confirmLock")
    /\ IF Confirmed(lockKey[getLockKey(docOf[t])], Token(t))
       THEN /\ pc' = [pc EXCEPT ![t] = IF call[t].op = "reset" THEN "resetState"
                                       ELSE "readState"]
            /\ call' = [call EXCEPT ![t].deadline = 0]
            /\ lease' = lease
            /\ later' = later
            /\ trail' = [trail EXCEPT ![t].ran = TRUE]
            /\ StartHeartbeat(t)
            /\ hb' = hb
            /\ Hold(t)
       ELSE /\ AfterFailedTry(t)
            /\ UNCHANGED hbVars
            /\ Yield(t)
    /\ UNCHANGED <<timeVars, storeVars, placeVars, released, track>>

(* ----------------------------- withState ------------------------------ *)
\* readState(docId) once the key is read: an absent key reads as the empty
\* state; an available entry without a non-empty id and version and an
\* active entry without a non-empty version are skipped
readState(raw) ==
    IF IsSome(raw)
    THEN LeaseState(SelectSeq(Get(raw).available,
                              LAMBDA e : isNonEmptyString(e.id) /\ isNonEmptyString(e.version)),
                    [k \in {i \in DOMAIN Get(raw).active :
                               isNonEmptyString(Get(raw).active[i].version)}
                        |-> Get(raw).active[k]])
    ELSE EmptyState

\* readState: getItem(stateKey)
ReadState(t) ==
    /\ Runs(t, "readState")
    /\ call' = [call EXCEPT ![t].state = readState(stateKey[getStateKey(docOf[t])])]
    /\ pc' = [pc EXCEPT ![t] = "drainPending"]
    /\ Hold(t)
    /\ UNCHANGED <<timeVars, storeVars, placeVars, lease, hbVars, histVars>>

\* readPendingReleases + parsePendingEntries: an absent key has no entries,
\* and an item without a non-empty id and version is skipped
PendingEntries(raw) ==
    IF IsSome(raw)
    THEN SelectSeq(Get(raw), LAMBDA e : isNonEmptyString(e.id) /\ isNonEmptyString(e.version))
    ELSE << >>

\* drainPendingReleases(docId, state): the state after the fold and the
\* PendingDrainResult
drainPendingReleases(raw, state) ==
    [state |-> DrainFold(state, Dedup(PendingEntries(raw))),
     pending |-> [snapshot |-> raw, entries |-> Dedup(PendingEntries(raw))]]

\* The state written although the mutator threw
AfterMutator_Writes(error) == "awaitMutator"

\* withState: where it goes on after `await mutator(state)`; a mutator that
\* throws leaves it before writeState and finalizePendingReleases
AfterMutator(error) == IF error = "" THEN "awaitMutator" ELSE "callbackDone"

\* withState from drainPendingReleases to `await mutator(state)`: the read of
\* the pending key, the fold, cleanupState and the mutator, which runs up to
\* its return in the same synchronous block.
DrainAndMutate(t, scripts) ==
    /\ Runs(t, "drainPending")
    /\ LET drained == drainPendingReleases(pendingKey[getPendingKey(docOf[t])], call[t].state)
           clean == cleanupState(drained.state, now)
       IN  \/ /\ call[t].op = "acquire"
              /\ \E script \in scripts :
                    LET m == AcquireMutator(clean, call[t].version, script, now)
                    IN  call' = [call EXCEPT ![t].state = m.state,
                                             ![t].pending = drained.pending,
                                             ![t].peerId = m.peerId,
                                             ![t].genCalls = m.genCalls,
                                             ![t].error = m.error]
           \/ /\ call[t].op = "release"
              /\ call' = [call EXCEPT
                            ![t].state = FlushMutator(clean, lease[t].value,
                                                      call[t].version),
                            ![t].pending = drained.pending]
    /\ pc' = [pc EXCEPT ![t] = AfterMutator(call'[t].error)]
    /\ Yield(t)
    /\ UNCHANGED <<timeVars, storeVars, placeVars, lease, hbVars, histVars>>

\* writeState(docId, state): the key is removed when both parts are empty
writeState(state) ==
    IF state.available = << >> /\ DOMAIN state.active = {}
    THEN None
    ELSE Some(state)

\* withState after the await: normalizeState and writeState
WriteState(t) ==
    /\ Runs(t, "awaitMutator")
    /\ stateKey' = [stateKey EXCEPT ![getStateKey(docOf[t])] =
                       writeState(normalizeState(call[t].state))]
    /\ call' = [call EXCEPT ![t].state = normalizeState(@)]
    /\ IF call[t].pending.entries = << >>
       THEN /\ pc' = [pc EXCEPT ![t] = "callbackDone"]
            /\ Yield(t)
       ELSE /\ pc' = [pc EXCEPT ![t] = "finalizeGet"]
            /\ Hold(t)
    /\ UNCHANGED <<timeVars, pendingKey, lockKey, fenceKey, placeVars, lease,
                   hbVars, histVars>>

\* finalizePendingReleases once currentRaw is read: nothing to write (None),
\* or the new content of the pending key (<< >>: removeItem).
finalizePendingReleases(currentRaw, pending) ==
    IF ~ IsSome(currentRaw) THEN None
    ELSE IF IsSome(pending.snapshot) /\ currentRaw = pending.snapshot
         THEN Some(<< >>)
         ELSE LET remaining == RemoveFolded(PendingEntries(currentRaw),
                                            pending.entries)
              IN  IF remaining = PendingEntries(currentRaw) THEN None
                  ELSE Some(remaining)

\* finalizePendingReleases: getItem(pendingKey)
FinalizeGet(t) ==
    /\ Runs(t, "finalizeGet")
    /\ LET f == finalizePendingReleases(pendingKey[getPendingKey(docOf[t])], call[t].pending)
       IN  /\ call' = [call EXCEPT ![t].finalize = f]
           /\ IF IsSome(f)
              THEN /\ pc' = [pc EXCEPT ![t] = "finalizeSet"]
                   /\ Hold(t)
              ELSE /\ pc' = [pc EXCEPT ![t] = "callbackDone"]
                   /\ Yield(t)
    /\ UNCHANGED <<timeVars, storeVars, placeVars, lease, hbVars, histVars>>

\* writePendingReleases(docId, entries): no entries removes the key
writePendingReleases(entries) ==
    IF entries = << >> THEN None ELSE Some(entries)

\* finalizePendingReleases: removeItem(key) or writePendingReleases
FinalizeSet(t) ==
    /\ Runs(t, "finalizeSet")
    /\ pendingKey' = [pendingKey EXCEPT ![getPendingKey(docOf[t])] =
                         writePendingReleases(Get(call[t].finalize))]
    /\ pc' = [pc EXCEPT ![t] = "callbackDone"]
    /\ Yield(t)
    /\ UNCHANGED <<timeVars, stateKey, lockKey, fenceKey, placeVars, call,
                   lease, hbVars, histVars>>

(* ------------------------ resetPeerLeaseState ------------------------- *)
\* The state key set to an empty state instead of being removed
ResetState_Empty(t) ==
    /\ Runs(t, "resetState")
    /\ stateKey' = [stateKey EXCEPT ![getStateKey(docOf[t])] = Some(EmptyState)]
    /\ pc' = [pc EXCEPT ![t] = "resetLock"]
    /\ Hold(t)
    /\ UNCHANGED <<timeVars, pendingKey, lockKey, fenceKey, placeVars, call,
                   lease, hbVars, histVars>>

\* The callback of resetPeerLeaseState(docId): four removeItem calls
ResetState(t) ==
    /\ Runs(t, "resetState")
    /\ stateKey' = [stateKey EXCEPT ![getStateKey(docOf[t])] = None]
    /\ pc' = [pc EXCEPT ![t] = "resetLock"]
    /\ Hold(t)
    /\ UNCHANGED <<timeVars, pendingKey, lockKey, fenceKey, placeVars, call,
                   lease, hbVars, histVars>>

ResetLock(t) ==
    /\ Runs(t, "resetLock")
    /\ lockKey' = [lockKey EXCEPT ![getLockKey(docOf[t])] = None]
    /\ pc' = [pc EXCEPT ![t] = "resetFence"]
    /\ Hold(t)
    /\ UNCHANGED <<timeVars, stateKey, pendingKey, fenceKey, placeVars, call,
                   lease, hbVars, histVars>>

ResetFence(t) ==
    /\ Runs(t, "resetFence")
    /\ fenceKey' = [fenceKey EXCEPT ![getFenceKey(docOf[t])] = None]
    /\ pc' = [pc EXCEPT ![t] = "resetPending"]
    /\ Hold(t)
    /\ UNCHANGED <<timeVars, stateKey, pendingKey, lockKey, placeVars, call,
                   lease, hbVars, histVars>>

ResetPending(t) ==
    /\ Runs(t, "resetPending")
    /\ pendingKey' = [pendingKey EXCEPT ![getPendingKey(docOf[t])] = None]
    /\ pc' = [pc EXCEPT ![t] = "callbackDone"]
    /\ Yield(t)
    /\ UNCHANGED <<timeVars, stateKey, lockKey, fenceKey, placeVars, call,
                   lease, hbVars, histVars>>

(* ------------------- runExclusive: the finally block ------------------ *)
\* What a call leaves behind when runExclusive has returned or thrown:
\* acquirePeerId resolves with a lease or rejects; release marks the handle
\* flushed, or idle again when the flush threw; reset resolves.
EndOfCall(t) ==
    /\ pc' = [pc EXCEPT ![t] =
                 CASE call[t].op = "acquire" ->
                          IF call[t].error = "" THEN "held" ELSE "failed"
                   [] call[t].op = "release" -> "released"
                   [] OTHER -> "done"]
    /\ lease' = [lease EXCEPT ![t] =
                    CASE call[t].op = "acquire" /\ call[t].error = "" ->
                             [NoLease EXCEPT !.value = call[t].peerId]
                      [] call[t].op = "release" ->
                             [@ EXCEPT !.releaseState = "flushed"]
                      [] OTHER -> @]
    /\ call' = [call EXCEPT ![t] = EndCall(@)]
    /\ later' = [later EXCEPT ![t] =
                    IF @ = "running" /\ call[t].error = "" THEN "done" ELSE "no"]
    /\ trail' = [trail EXCEPT ![t] =
                    [Entering(@) EXCEPT !.end = IF call[t].error = "" THEN "returned"
                                                ELSE "threw"]]
    /\ track' = [track EXCEPT ![docOf[t]].reset =
                    IF call[t].op = "reset" /\ @ = "run" THEN "done" ELSE @]

\* The condition of release(token): the record read carries the token
Owned(record, token) ==
    /\ IsSome(record)
    /\ Get(record).token = token

\* finally: stopHeartbeat(), then release(token) up to its readLock
ReleaseRead(t) ==
    /\ Runs(t, "callbackDone")
    /\ StopHeartbeat(proc[t], docOf[t])
    /\ hb' = hb
    /\ IF Owned(lockKey[getLockKey(docOf[t])], Token(t))
       THEN /\ pc' = [pc EXCEPT ![t] = "releaseRemove"]
            /\ UNCHANGED <<call, lease, later, trail, track>>
            /\ Hold(t)
       ELSE /\ EndOfCall(t)
            /\ Yield(t)
    /\ UNCHANGED <<timeVars, storeVars, placeVars, released>>

\* release(token) without its removeItem: the record stays until it expires
ReleaseRemove_Keep(t) ==
    /\ Runs(t, "releaseRemove")
    /\ lockKey' = lockKey
    /\ EndOfCall(t)
    /\ Yield(t)
    /\ UNCHANGED <<timeVars, stateKey, pendingKey, fenceKey, placeVars, hbVars,
                   released>>

\* release(token): removeItem(key) and announceRelease
ReleaseRemove(t) ==
    /\ Runs(t, "releaseRemove")
    /\ lockKey' = [lockKey EXCEPT ![getLockKey(docOf[t])] = None]
    /\ EndOfCall(t)
    /\ Yield(t)
    /\ UNCHANGED <<timeVars, stateKey, pendingKey, fenceKey, placeVars, hbVars,
                   released>>

(* ------------------------------ the calls ----------------------------- *)
\* runExclusive up to its loop: a fresh token and the deadline
EnterRunExclusive(c) ==
    [c EXCEPT !.runs = @ + 1, !.deadline = now + ACQUIRE_TIMEOUT_MS]

\* History: a call of task t begins
Begins(t) ==
    later' = [later EXCEPT ![t] = IF \E p \in Procs : ~ alive[p] THEN "running"
                                  ELSE "no"]

\* acquirePeerId(docId, genFn, version, cmpVersion) with valid arguments, up
\* to runExclusive
BeginAcquire(t, version) ==
    /\ Runs(t, "idle")
    /\ InTurn(t)
    /\ call' = [call EXCEPT ![t] =
                   EnterRunExclusive([@ EXCEPT !.op = "acquire",
                                               !.version = version])]
    /\ pc' = [pc EXCEPT ![t] = "tryAcquire"]
    /\ Begins(t)
    /\ trail' = [trail EXCEPT ![t] = Entering(@)]
    /\ Hold(t)
    /\ UNCHANGED <<timeVars, storeVars, placeVars, lease, hbVars, released,
                   track>>

ValidAcquire_Any(docId, genIsFunction, version, cmpIsFunction) == TRUE

\* The four checks of acquirePeerId, passed
ValidAcquire(docId, genIsFunction, version, cmpIsFunction) ==
    /\ isNonEmptyString(docId)
    /\ genIsFunction
    /\ isNonEmptyString(version)
    /\ cmpIsFunction

\* acquirePeerId throws a TypeError from one of its four checks
AcquireRejected(t) ==
    /\ Runs(t, "idle")
    /\ InTurn(t)
    /\ pc' = [pc EXCEPT ![t] = "failed"]
    /\ trail' = [trail EXCEPT ![t].end = "invalid"]
    /\ UNCHANGED <<timeVars, storeVars, placeVars, cpu, call, lease, hbVars,
                   released, later, track>>

\* acquirePeerId(docId, genFn, version, cmpVersion) by task t, whose
\* document is docOf[t] when the docId is not empty
acquirePeerId(t, docId, genIsFunction, version, cmpIsFunction) ==
    IF ValidAcquire(docId, genIsFunction, version, cmpIsFunction)
    THEN docId = docOf[t] /\ BeginAcquire(t, version)
    ELSE AcquireRejected(t)

\* resetPeerLeaseState(docId), up to runExclusive
BeginReset(t) ==
    /\ Runs(t, "idle")
    /\ InTurn(t)
    /\ call' = [call EXCEPT ![t] = EnterRunExclusive([@ EXCEPT !.op = "reset"])]
    /\ pc' = [pc EXCEPT ![t] = "tryAcquire"]
    /\ Begins(t)
    /\ trail' = [trail EXCEPT ![t] = Entering(@)]
    /\ track' = [track EXCEPT ![docOf[t]].reset = "run"]
    /\ Hold(t)
    /\ UNCHANGED <<timeVars, storeVars, placeVars, lease, hbVars, released>>

ReusesReleaseTask_Never(l) == FALSE

isReleased_Flushed(l) == l.releaseState = "flushed"

\* isReleased(): this.releaseState !== "idle"
isReleased(l) == l.releaseState # "idle"

\* release: if (this.releaseTask) return this.releaseTask
ReusesReleaseTask(l) == l.releaseTask

\* lease.release(version) with a non-empty version and no release task yet,
\* up to the call of stagePendingRelease
StartRelease(t, version) ==
    /\ pc[t] \in {"held", "released"}
    /\ Runs(t, pc[t])
    /\ isNonEmptyString(version)
    /\ ~ ReusesReleaseTask(lease[t])
    /\ call' = [call EXCEPT ![t].op = "release", ![t].version = version]
    /\ lease' = lease
    /\ released' = [released EXCEPT ![<<docOf[t], lease[t].value>>] = version]
    /\ Begins(t)
    /\ trail' = [trail EXCEPT ![t].asked = TRUE]
    /\ track' = [track EXCEPT ![docOf[t]].reset = "no"]
    /\ pc' = [pc EXCEPT ![t] = "stageGet"]
    /\ Hold(t)
    /\ UNCHANGED <<timeVars, storeVars, proc, docOf, alive, hbVars>>

\* lease.release(version) called by the application
BeginRelease(t, version) ==
    /\ StartRelease(t, version)
    /\ UNCHANGED page

\* The entry written alone, without the entries read
stagePendingRelease_Only(raw, id, version) == <<CachedPeerId(id, version)>>

\* stagePendingRelease(docId, entry) up to its write: the entries read,
\* deduplicated, with the entry upserted
stagePendingRelease(raw, id, version) ==
    MapSet(Dedup(PendingEntries(raw)), id, version)

\* stagePendingRelease: readPendingReleases
StageGet(t) ==
    /\ Runs(t, "stageGet")
    /\ call' = [call EXCEPT ![t].stage =
                   stagePendingRelease(pendingKey[getPendingKey(docOf[t])], lease[t].value,
                                       call[t].version)]
    /\ pc' = [pc EXCEPT ![t] = "stageSet"]
    /\ Hold(t)
    /\ UNCHANGED <<timeVars, storeVars, placeVars, lease, hbVars, histVars>>

\* stagePendingRelease: writePendingReleases; release() then marks the handle
\* staged and starts the flush, which enters runExclusive at once.
StageSet(t) ==
    /\ Runs(t, "stageSet")
    /\ pendingKey' = [pendingKey EXCEPT ![getPendingKey(docOf[t])] =
                         writePendingReleases(call[t].stage)]
    /\ lease' = [lease EXCEPT ![t].releaseState = "staged",
                              ![t].releaseTask = TRUE]
    /\ call' = [call EXCEPT ![t] = EnterRunExclusive([@ EXCEPT !.stage = << >>])]
    /\ pc' = [pc EXCEPT ![t] = "tryAcquire"]
    /\ trail' = [trail EXCEPT ![t] = [Entering(@) EXCEPT !.stages = IF @ = 0 THEN 1 ELSE 2,
                                                         !.failed = FALSE]]
    /\ Hold(t)
    /\ UNCHANGED <<timeVars, stateKey, lockKey, fenceKey, placeVars, hbVars,
                   released, later, track>>

\* lease.release(version) with an empty version: the TypeError of the first
\* check, before anything is read or written
ReleaseRejected(t, version) ==
    /\ alive[proc[t]]
    /\ cpu[proc[t]] = 0
    /\ lease[t].value # NoId
    /\ ~ isNonEmptyString(version)
    /\ trail[t].empty = ""
    /\ trail' = [trail EXCEPT ![t].empty = lease[t].releaseState]
    /\ UNCHANGED <<timeVars, storeVars, placeVars, cpu, pc, call, lease, hbVars,
                   released, later, track>>

\* A further lease.release(version) with a non-empty version while the
\* release task exists: the call returns that task's promise
ReleaseAgain(t, version) ==
    /\ alive[proc[t]]
    /\ cpu[proc[t]] = 0
    /\ lease[t].value # NoId
    /\ isNonEmptyString(version)
    /\ ReusesReleaseTask(lease[t])
    /\ ~ trail[t].again
    /\ trail' = [trail EXCEPT ![t].again = TRUE]
    /\ UNCHANGED <<timeVars, storeVars, placeVars, cpu, pc, call, lease, hbVars,
                   released, later, track>>

(* ------------------------------ heartbeat ----------------------------- *)
\* A due interval timer fires: refresh(token) up to its readLock.  A record
\* of another token, or none, makes refresh return false and the callback
\* calls stopHeartbeat().
HeartbeatRead(p, d) ==
    /\ alive[p]
    /\ cpu[p] = 0
    /\ \E i \in intervals[<<p, d>>] :
          /\ now >= i.due
          /\ IF Owned(lockKey[getLockKey(d)], i.token)
             THEN /\ hb' = [hb EXCEPT ![p] =
                              [doc |-> d, token |-> i.token, pc |-> "bumpFenceGet",
                               t0 |-> now, fence |-> Get(lockKey[getLockKey(d)]).fence]]
                  /\ cpu' = [cpu EXCEPT ![p] = -1]
                  /\ heartbeat' = heartbeat
                  /\ intervals' = [intervals EXCEPT ![<<p, d>>] =
                                     (@ \ {i}) \cup
                                     {[i EXCEPT !.due = now + HeartbeatInterval]}]
             ELSE /\ StopHeartbeat(p, d)
                  /\ UNCHANGED <<hb, cpu>>
    /\ UNCHANGED <<timeVars, storeVars, placeVars, pc, call, lease, histVars>>

\* refresh: bumpFence(record.fence), its getItem
HeartbeatFenceGet(p) ==
    /\ alive[p]
    /\ hb[p].pc = "bumpFenceGet"
    /\ hb' = [hb EXCEPT ![p].fence = NextFence(fenceKey[getFenceKey(hb[p].doc)], @),
                        ![p].pc = "bumpFenceSet"]
    /\ UNCHANGED <<timeVars, storeVars, placeVars, cpu, pc, call, lease,
                   heartbeat, intervals, histVars>>

\* refresh: bumpFence, its setItem
HeartbeatFenceSet(p) ==
    /\ alive[p]
    /\ hb[p].pc = "bumpFenceSet"
    /\ fenceKey' = [fenceKey EXCEPT ![getFenceKey(hb[p].doc)] = Some(hb[p].fence)]
    /\ hb' = [hb EXCEPT ![p].pc = "writeLock"]
    /\ UNCHANGED <<timeVars, stateKey, pendingKey, lockKey, placeVars, cpu, pc,
                   call, lease, heartbeat, intervals, histVars>>

\* refresh: writeLock(updated)
HeartbeatWrite(p) ==
    /\ alive[p]
    /\ hb[p].pc = "writeLock"
    /\ lockKey' = [lockKey EXCEPT ![getLockKey(hb[p].doc)] =
                      Some(LockRecord(hb[p].token, hb[p].t0 + LOCK_TTL_MS,
                                      hb[p].fence))]
    /\ hb' = [hb EXCEPT ![p] = NoHb]
    /\ cpu' = [cpu EXCEPT ![p] = 0]
    /\ track' = [track EXCEPT ![hb[p].doc].fence = Max(@, hb[p].fence)]
    /\ UNCHANGED <<timeVars, stateKey, pendingKey, fenceKey, placeVars, pc,
                   call, lease, heartbeat, intervals, released, later, trail>>

(* ------------------------- time and termination ----------------------- *)
\* The clock advances by the acquire timeout, the lock TTL or the lease
\* staleness limit.
TimeSteps == {ACQUIRE_TIMEOUT_MS, LOCK_TTL_MS, LEASE_STALE_AFTER_MS}

\* Date.now() advances.  A synchronous block takes no time: the clock moves
\* only while every process is between two blocks.
Tick(ms) ==
    /\ ticks < MaxTicks
    /\ \A p \in Procs : cpu[p] = 0
    /\ now' = now + ms
    /\ ticks' = ticks + 1
    /\ UNCHANGED <<storeVars, placeVars, cpu, pc, call, lease, hbVars, histVars>>

\* The clock advances while no caller is inside a critical section: the
\* callbacks of acquirePeerId and release await only resolved promises, so a
\* critical section runs to its end before any timer does.
TickIdle(ms) ==
    /\ \A t \in Tasks : pc[t] \notin {"awaitMutator", "callbackDone"}
    /\ Tick(ms)

\* A process terminates: its tasks and timers are gone, storage stays.
Terminate(p) ==
    /\ alive[p]
    /\ \E t \in Tasks : proc[t] = p /\ pc[t] # "off"
    /\ alive' = [alive EXCEPT ![p] = FALSE]
    /\ cpu' = [cpu EXCEPT ![p] = 0]
    /\ pc' = [t \in Tasks |-> IF proc[t] = p /\ pc[t] # "off" THEN "dead"
                              ELSE pc[t]]
    /\ call' = [t \in Tasks |-> IF proc[t] = p THEN NoCall ELSE call[t]]
    /\ heartbeat' = [k \in Procs \X Docs |-> IF k[1] = p THEN None
                                              ELSE heartbeat[k]]
    /\ intervals' = [k \in Procs \X Docs |-> IF k[1] = p THEN {}
                                              ELSE intervals[k]]
    /\ hb' = [hb EXCEPT ![p] = NoHb]
    /\ later' = [t \in Tasks |->
                    IF /\ proc[t] = p
                       /\ lease[t].releaseState = "staged"
                       /\ pc[t] \in {"tryAcquire", "bumpFenceGet", "bumpFenceSet",
                                     "writeLock", "confirmLock", "waitBeforeRetry"}
                    THEN "cut" ELSE later[t]]
    /\ UNCHANGED <<timeVars, storeVars, proc, docOf, lease, released, trail,
                   track, page>>

(* --------------------------- lifecycle hook --------------------------- *)
\* The frontiers captured whether or not the handle is released
stageFrontiers_Unreleased(pg, l) ==
    IF pg.stagedVersion # NoId THEN pg.stagedVersion ELSE pg.frontiers

\* stageFrontiers(): the version the closure holds afterwards; nothing is
\* captured while one is held or the handle is released
stageFrontiers(pg, l) ==
    IF pg.stagedVersion # NoId \/ isReleased(l) THEN pg.stagedVersion
    ELSE pg.frontiers

\* History: one more event of the given type was dispatched
Dispatched(pg, type) == [pg EXCEPT !.events = @ + 1, !.event = type]

\* A step of the page alone
OnlyPage ==
    UNCHANGED <<timeVars, storeVars, proc, docOf, alive, cpu, pc, call, lease,
                hbVars, histVars>>

\* attachPeerLeaseLifecycle({release, doc}) on the handle of a lease held
Attach(t) ==
    /\ Runs(t, "held")
    /\ cpu[proc[t]] = 0
    /\ page.attached = "no"
    /\ page' = [page EXCEPT !.attached = "yes"]
    /\ OnlyPage

\* The function attachPeerLeaseLifecycle returned: the listeners are removed
Detach(t) ==
    /\ alive[proc[t]]
    /\ cpu[proc[t]] = 0
    /\ page.attached = "yes"
    /\ page' = [page EXCEPT !.attached = "detached"]
    /\ OnlyPage

\* The document advances: doc.frontiers() returns a later version
Edit(t) ==
    /\ alive[proc[t]]
    /\ cpu[proc[t]] = 0
    /\ page.frontiers < MaxVersion
    /\ page' = [page EXCEPT !.frontiers = @ + 1]
    /\ OnlyPage

\* document.visibilityState changes and visibilitychange is dispatched:
\* handleVisibilityChange stages the frontiers if the state is "hidden"
VisibilityChange(t) ==
    /\ alive[proc[t]]
    /\ cpu[proc[t]] = 0
    /\ page.events < MaxEvents
    /\ LET hidden == ~ page.hidden
           heard == page.attached = "yes" /\ hidden
       IN  page' = [Dispatched(page, "visibilitychange") EXCEPT
                       !.hidden = hidden,
                       !.stagedVersion =
                           IF heard THEN stageFrontiers(page, lease[t]) ELSE @,
                       !.firstHidden =
                           IF heard /\ @ = NoId THEN page.frontiers ELSE @,
                       !.firstStaged =
                           IF heard /\ @ = NoId /\ ~ isReleased(lease[t])
                           THEN page.frontiers ELSE @]
    /\ OnlyPage

\* pageshow is dispatched: handlePageShow forgets the staged version
PageShow(t) ==
    /\ alive[proc[t]]
    /\ cpu[proc[t]] = 0
    /\ page.events < MaxEvents
    /\ page' = IF page.attached = "yes"
               THEN [Dispatched(page, "pageshow") EXCEPT
                        !.stagedVersion = NoId, !.firstHidden = NoId,
                        !.firstStaged = NoId]
               ELSE Dispatched(page, "pageshow")
    /\ OnlyPage

\* pagehide is dispatched: handlePageHide stages the frontiers, keeps the
\* version and calls release(version), which stages it synchronously or
\* returns the release task that exists
PageHide(t) ==
    /\ alive[proc[t]]
    /\ cpu[proc[t]] = 0
    /\ page.events < MaxEvents
    /\ IF page.attached = "yes"
       THEN LET staged == stageFrontiers(page, lease[t])
                version == IF staged # NoId THEN staged ELSE page.frontiers
            IN  /\ page' = [Dispatched(page, "pagehide") EXCEPT
                                !.stagedVersion = version,
                                !.calls = @ + 1,
                                !.last = version,
                                !.firstStaged = IF @ = NoId THEN version ELSE @]
                /\ IF ReusesReleaseTask(lease[t])
                   THEN /\ trail' = [trail EXCEPT ![t].again = TRUE]
                        /\ UNCHANGED <<timeVars, storeVars, proc, docOf, alive,
                                       cpu, pc, call, lease, hbVars, released,
                                       later, track>>
                   ELSE StartRelease(t, version)
       ELSE /\ page' = Dispatched(page, "pagehide")
            /\ OnlyPage

(* --------------------------- specifications --------------------------- *)
\* One step of runExclusive on the LocalStorageMutex
MutexStep(t) ==
    \/ TryAcquireRead(t)
    \/ BumpFenceGet(t)
    \/ BumpFenceSet(t)
    \/ WriteLock(t)
    \/ ConfirmLock(t)
    \/ ReleaseRead(t)
    \/ ReleaseRemove(t)

\* One step of acquirePeerId or of release on its lease, the callers drawing
\* their versions from `versions` and their generators from `scripts`
LeaseStep(t, versions, scripts) ==
    \/ \E v \in versions : BeginAcquire(t, v)
    \/ \E v \in versions : BeginRelease(t, v)
    \/ StageGet(t)
    \/ StageSet(t)
    \/ ReadState(t)
    \/ DrainAndMutate(t, scripts)
    \/ WriteState(t)
    \/ FinalizeGet(t)
    \/ FinalizeSet(t)

ResetStep(t) ==
    \/ BeginReset(t)
    \/ ResetState(t)
    \/ ResetLock(t)
    \/ ResetFence(t)
    \/ ResetPending(t)

HeartbeatStep(p) ==
    \/ \E d \in Docs : HeartbeatRead(p, d)
    \/ HeartbeatFenceGet(p)
    \/ HeartbeatFenceSet(p)
    \/ HeartbeatWrite(p)

OneProc == [Tasks -> {1}]
OneDoc == [Tasks -> {1}]

\* Generators that return a non-empty id and repeat it at most once
PlainScripts == {g \in GenScripts : g.first # NoId /\ g.next # NoId /\ g.repeat = 1}

\* One process, one document, three callers with any version and generator.
Init == InitWith(1..(NumTasks - 1), OneProc, OneDoc)

Next ==
    \/ \E t \in Tasks : MutexStep(t)
    \/ \E t \in Tasks : LeaseStep(t, Versions, GenScripts)

Spec == Init /\ [][Next]_vars

\* One process, one document, four callers that present version 1 or the
\* top version.
InitRace == InitWith(Tasks, OneProc, OneDoc)

NextRace ==
    \/ \E t \in Tasks : MutexStep(t)
    \/ \E t \in Tasks : LeaseStep(t, {1, MaxVersion}, PlainScripts)

SpecRace == InitRace /\ [][NextRace]_vars

\* One process, one document, two callers, the clock and the heartbeat
\* timers.
InitTime == InitWith(1..(NumTasks - 2), OneProc, OneDoc)

NextTime ==
    \/ \E t \in Tasks : MutexStep(t)
    \/ \E t \in Tasks : LeaseStep(t, {1}, PlainScripts)
    \/ \E p \in Procs : HeartbeatStep(p)
    \/ \E ms \in TimeSteps : Tick(ms)

SpecTime == InitTime /\ [][NextTime]_vars

\* Two processes on one document: task 1 in the first, the others in the
\* second; a process may terminate at any step.
TwoProcs == {[t \in Tasks |-> IF t = 1 THEN 1 ELSE 2]}

InitProcs == InitWith(1..(NumTasks - 2), TwoProcs, OneDoc)

NextProcs ==
    \/ \E t \in Tasks : MutexStep(t)
    \/ \E t \in Tasks : LeaseStep(t, {1, MaxVersion}, PlainScripts)
    \/ \E p \in Procs : Terminate(p)

SpecProcs == InitProcs /\ [][NextProcs]_vars

\* One process, one document, three callers that all present version 1; the
\* clock advances by the staleness limit between critical sections and no
\* heartbeat timer fires.
InitStale == InitWith(1..(NumTasks - 1), OneProc, OneDoc)

NextStale ==
    \/ \E t \in Tasks : MutexStep(t)
    \/ \E t \in Tasks : LeaseStep(t, {1}, PlainScripts)
    \/ TickIdle(LEASE_STALE_AFTER_MS)

SpecStale == InitStale /\ [][NextStale]_vars

\* One process, two documents: tasks 1 and 2 on the first, task 3 on the
\* second; any task may reset its document instead of acquiring.
TwoDocs == {[t \in Tasks |-> IF t <= 2 THEN 1 ELSE 2]}

InitDocs == InitWith(1..(NumTasks - 1), OneProc, TwoDocs)

NextDocs ==
    \/ \E t \in Tasks : MutexStep(t)
    \/ \E t \in Tasks : LeaseStep(t, {1, MaxVersion}, PlainScripts)
    \/ \E t \in Tasks : ResetStep(t)

SpecDocs == InitDocs /\ [][NextDocs]_vars

\* A generator that returns 1, then 2
OneScript == {[first |-> 1, repeat |-> 1, next |-> 2]}

\* Two processes on one document, one caller each, with the heartbeat
\* timers and a clock that advances by the acquire timeout.
InitWait == InitWith(1..(NumTasks - 2), TwoProcs, OneDoc)

NextWait ==
    \/ \E t \in Tasks : MutexStep(t)
    \/ \E t \in Tasks : LeaseStep(t, {1}, OneScript)
    \/ \E p \in Procs : HeartbeatStep(p)
    \/ Tick(ACQUIRE_TIMEOUT_MS)

SpecWait == InitWait /\ [][NextWait]_vars

\* What the event loop does for task t without being asked by a caller:
\* the steps of a call that has begun
Continue(t) ==
    \/ MutexStep(t)
    \/ StageGet(t)
    \/ StageSet(t)
    \/ ReadState(t)
    \/ DrainAndMutate(t, OneScript)
    \/ WriteState(t)
    \/ FinalizeGet(t)
    \/ FinalizeSet(t)
    \/ ResetState(t)
    \/ ResetLock(t)
    \/ ResetFence(t)
    \/ ResetPending(t)

\* Two processes on one document, one caller each, which acquires or
\* resets; the first process may terminate and the clock advances by the
\* acquire timeout.  Every call that has begun keeps being run by its event
\* loop, and time passes.
NextLive ==
    \/ \E t \in Tasks : MutexStep(t)
    \/ \E t \in Tasks : BeginAcquire(t, 1)
    \/ \E t \in Tasks : ReadState(t)
    \/ \E t \in Tasks : DrainAndMutate(t, OneScript)
    \/ \E t \in Tasks : WriteState(t)
    \/ \E t \in Tasks : ResetStep(t)
    \/ Tick(ACQUIRE_TIMEOUT_MS)
    \/ Terminate(1)

SpecLive ==
    /\ InitWait
    /\ [][NextLive]_vars
    /\ \A t \in Tasks : WF_vars(Continue(t))
    /\ WF_vars(Tick(ACQUIRE_TIMEOUT_MS))

\* lease.release(version): its three ways
release(t, version) ==
    \/ ReleaseRejected(t, version)
    \/ ReleaseAgain(t, version)
    \/ BeginRelease(t, version)

\* Two processes on one document, one caller each.  The caller of the first
\* process acquires and the process may terminate; the caller of the second
\* acquires and calls release on its lease, repeatedly; the clock advances
\* by the acquire timeout.
InitHandle == InitWith(1..(NumTasks - 2), TwoProcs, OneDoc)

NextHandle ==
    \/ \E t \in Tasks : MutexStep(t)
    \/ \E t \in Tasks : BeginAcquire(t, 1)
    \/ \E t \in Tasks \ {1} : BeginRelease(t, 1)
    \/ \E t \in Tasks \ {1} : ReleaseAgain(t, 1)
    \/ \E t \in Tasks : StageGet(t)
    \/ \E t \in Tasks : StageSet(t)
    \/ \E t \in Tasks : ReadState(t)
    \/ \E t \in Tasks : DrainAndMutate(t, OneScript)
    \/ \E t \in Tasks : WriteState(t)
    \/ \E t \in Tasks : FinalizeGet(t)
    \/ \E t \in Tasks : FinalizeSet(t)
    \/ Tick(ACQUIRE_TIMEOUT_MS)
    \/ Terminate(1)

SpecHandle == InitHandle /\ [][NextHandle]_vars

\* One process, one document: every caller acquires with version 1 and
\* calls release on its lease with the empty version or version 1, in any
\* order and repeatedly.
ReleaseVersions == {NoId, 1}

InitRelease == InitWith(1..(NumTasks - 1), OneProc, OneDoc)

NextRelease ==
    \/ \E t \in Tasks : MutexStep(t)
    \/ \E t \in Tasks : BeginAcquire(t, 1)
    \/ \E t \in Tasks : \E v \in ReleaseVersions : release(t, v)
    \/ \E t \in Tasks : StageGet(t)
    \/ \E t \in Tasks : StageSet(t)
    \/ \E t \in Tasks : ReadState(t)
    \/ \E t \in Tasks : DrainAndMutate(t, OneScript)
    \/ \E t \in Tasks : WriteState(t)
    \/ \E t \in Tasks : FinalizeGet(t)
    \/ \E t \in Tasks : FinalizeSet(t)

SpecRelease == InitRelease /\ [][NextRelease]_vars

\* One process, one document, four callers that start in turn: the first
\* two acquire and release, the third resets the document, the fourth
\* acquires.
InitReset == InitWith(Tasks, OneProc, OneDoc)

NextReset ==
    \/ \E t \in Tasks : MutexStep(t)
    \/ \E t \in Tasks \ {NumTasks - 1} : BeginAcquire(t, 1)
    \/ \E t \in Tasks \ {NumTasks} : BeginRelease(t, 1)
    \/ \E t \in Tasks : StageGet(t)
    \/ \E t \in Tasks : StageSet(t)
    \/ \E t \in Tasks : ReadState(t)
    \/ \E t \in Tasks : DrainAndMutate(t, OneScript)
    \/ \E t \in Tasks : WriteState(t)
    \/ \E t \in Tasks : FinalizeGet(t)
    \/ \E t \in Tasks : FinalizeSet(t)
    \/ ResetStep(NumTasks - 1)

SpecReset == InitReset /\ [][NextReset]_vars

\* One process, one document: every caller calls acquirePeerId with a docId
\* and a version that may be empty and with a generator and a comparator
\* that may not be functions, and releases the lease it gets.
InitValidate == InitWith(1..(NumTasks - 1), OneProc, OneDoc)

NextValidate ==
    \/ \E t \in Tasks : MutexStep(t)
    \/ \E t \in Tasks : \E d \in {NoId, docOf[t]}, v \in {NoId, 1}, g, c \in BOOLEAN :
          acquirePeerId(t, d, g, v, c)
    \/ \E t \in Tasks : BeginRelease(t, 1)
    \/ \E t \in Tasks : StageGet(t)
    \/ \E t \in Tasks : StageSet(t)
    \/ \E t \in Tasks : ReadState(t)
    \/ \E t \in Tasks : DrainAndMutate(t, OneScript)
    \/ \E t \in Tasks : WriteState(t)
    \/ \E t \in Tasks : FinalizeGet(t)
    \/ \E t \in Tasks : FinalizeSet(t)

SpecValidate == InitValidate /\ [][NextValidate]_vars

\* Two processes on one document: the two callers of the second acquire
\* and release with version 1, the caller of the first acquires.
InitStaging == InitWith(1..(NumTasks - 1), TwoProcs, OneDoc)

NextStaging ==
    \/ \E t \in Tasks : MutexStep(t)
    \/ \E t \in Tasks : BeginAcquire(t, 1)
    \/ \E t \in Tasks \ {1} : BeginRelease(t, 1)
    \/ \E t \in Tasks : StageGet(t)
    \/ \E t \in Tasks : StageSet(t)
    \/ \E t \in Tasks : ReadState(t)
    \/ \E t \in Tasks : DrainAndMutate(t, OneScript)
    \/ \E t \in Tasks : WriteState(t)
    \/ \E t \in Tasks : FinalizeGet(t)
    \/ \E t \in Tasks : FinalizeSet(t)

SpecStaging == InitStaging /\ [][NextStaging]_vars

\* One process, one document, a clock that advances by the acquire timeout:
\* the callers acquire and release, the first with one of two versions, and
\* again after a flush that timed out.
InitUpsert == InitWith(1..(NumTasks - 2), OneProc, OneDoc)

NextUpsert ==
    \/ \E t \in Tasks : MutexStep(t)
    \/ \E t \in Tasks : BeginAcquire(t, 1)
    \/ \E v \in 1..(MaxVersion - 1) : BeginRelease(1, v)
    \/ \E t \in Tasks \ {1} : BeginRelease(t, 1)
    \/ \E t \in Tasks : StageGet(t)
    \/ \E t \in Tasks : StageSet(t)
    \/ \E t \in Tasks : ReadState(t)
    \/ \E t \in Tasks : DrainAndMutate(t, OneScript)
    \/ \E t \in Tasks : WriteState(t)
    \/ \E t \in Tasks : FinalizeGet(t)
    \/ \E t \in Tasks : FinalizeSet(t)
    \/ Tick(ACQUIRE_TIMEOUT_MS)

SpecUpsert == InitUpsert /\ [][NextUpsert]_vars

\* The pending buffers stagePendingRelease can leave: at most one entry for
\* an id
EntryLists ==
    {s \in UNION {[1..n -> {CachedPeerId(i, v) : i \in Ids, v \in Versions}] :
                     n \in 0..NumIds} :
        \A i, j \in DOMAIN s : i # j => s[i].id # s[j].id}

\* The lease states withState can leave: normalised, of leases taken at
\* time 0
StoredStates ==
    {LeaseState(a, act) :
        a \in EntryLists,
        act \in UNION {[S -> {ActiveLeaseInfo(0, v) : v \in Versions}] :
                         S \in SUBSET Ids}}

\* One process, one document, two callers that acquire; the storage holds
\* the state and the pending buffer that earlier sessions left.
InitDrain ==
    /\ now = 0
    /\ ticks = 0
    /\ \E st \in StoredStates :
          /\ st = normalizeState(st)
          /\ stateKey = [d \in Docs |-> IF d = 1 THEN writeState(st) ELSE None]
    /\ \E buf \in EntryLists :
          pendingKey = [d \in Docs |-> IF d = 1 /\ buf # << >> THEN Some(buf)
                                       ELSE None]
    /\ lockKey = [d \in Docs |-> None]
    /\ fenceKey = [d \in Docs |-> None]
    /\ proc \in OneProc
    /\ docOf \in OneDoc
    /\ alive = [p \in Procs |-> TRUE]
    /\ cpu = [p \in Procs |-> 0]
    /\ pc = [t \in Tasks |-> IF t \in 1..(NumTasks - 2) THEN "idle" ELSE "off"]
    /\ call = [t \in Tasks |-> NoCall]
    /\ lease = [t \in Tasks |-> NoLease]
    /\ heartbeat = [k \in Procs \X Docs |-> None]
    /\ intervals = [k \in Procs \X Docs |-> {}]
    /\ hb = [p \in Procs |-> NoHb]
    /\ released = [k \in Docs \X Ids |-> 0]
    /\ later = [t \in Tasks |-> "no"]
    /\ trail = [t \in Tasks |-> NoTrail]
    /\ track = [d \in Docs |-> NoTrack]
    /\ page = NoPage

NextDrain ==
    \/ \E t \in Tasks : MutexStep(t)
    \/ \E t \in Tasks : BeginAcquire(t, 1)
    \/ \E t \in Tasks : ReadState(t)
    \/ \E t \in Tasks : DrainAndMutate(t, OneScript)
    \/ \E t \in Tasks : WriteState(t)
    \/ \E t \in Tasks : FinalizeGet(t)
    \/ \E t \in Tasks : FinalizeSet(t)

SpecDrain == InitDrain /\ [][NextDrain]_vars

\* One process, one document, two callers that acquire and release; each of
\* the state key, the pending key and the lock key is absent at first or
\* holds malformed data: an entry without id and version, a record whose
\* token is not a string.
InitCorrupt ==
    /\ now = 0
    /\ ticks = 0
    /\ stateKey \in [Docs -> {None, Some(LeaseState(<<CachedPeerId(NoId, NoId)>>, << >>))}]
    /\ pendingKey \in [Docs -> {None, Some(<<CachedPeerId(NoId, NoId)>>)}]
    /\ lockKey \in [Docs -> {None, Some(LockRecord(<<NoId, NoId>>, LOCK_TTL_MS, NumIds))}]
    /\ \A d \in Docs \ {1} :
          stateKey[d] = None /\ pendingKey[d] = None /\ lockKey[d] = None
    /\ fenceKey = [d \in Docs |-> None]
    /\ proc \in OneProc
    /\ docOf \in OneDoc
    /\ alive = [p \in Procs |-> TRUE]
    /\ cpu = [p \in Procs |-> 0]
    /\ pc = [t \in Tasks |-> IF t \in 1..(NumTasks - 2) THEN "idle" ELSE "off"]
    /\ call = [t \in Tasks |-> NoCall]
    /\ lease = [t \in Tasks |-> NoLease]
    /\ heartbeat = [k \in Procs \X Docs |-> None]
    /\ intervals = [k \in Procs \X Docs |-> {}]
    /\ hb = [p \in Procs |-> NoHb]
    /\ released = [k \in Docs \X Ids |-> 0]
    /\ later = [t \in Tasks |-> "no"]
    /\ trail = [t \in Tasks |-> NoTrail]
    /\ track = [d \in Docs |-> NoTrack]
    /\ page = NoPage

NextCorrupt ==
    \/ \E t \in Tasks : MutexStep(t)
    \/ \E t \in Tasks : LeaseStep(t, {1}, OneScript)

SpecCorrupt == InitCorrupt /\ [][NextCorrupt]_vars

(* ------------------------------- claims ------------------------------- *)
\* Task t holds a lease that was acquired and on which release was not called
Held(t) ==
    /\ pc[t] = "held"
    /\ lease[t].releaseState = "idle"

\* C1: no two leases on one document that are both acquired and not yet
\* released hold the same identifier.
C1_Uniqueness ==
    \A t, u \in Tasks :
        (t # u /\ docOf[t] = docOf[u] /\ Held(t) /\ Held(u))
            => lease[t].value # lease[u].value

\* The pool that the acquire of task t scans: `available` after the pending
\* releases are drained and stale leases are cleaned up
Pool(t) ==
    cleanupState(drainPendingReleases(pendingKey[getPendingKey(docOf[t])],
                                      call[t].state).state, now).available

\* The step in which the mutator of t's acquire runs
Mutates(t) ==
    /\ pc[t] = "drainPending"
    /\ call[t].op = "acquire"
    /\ pc'[t] # "drainPending"

\* The step in which the acquire of task t chooses identifier id
Issues(t, id) ==
    /\ Mutates(t)
    /\ pc'[t] = "awaitMutator"
    /\ call'[t].peerId = id

\* The acquire of task t has taken its identifier from the pool
Recycled(t) ==
    /\ pc[t] = "awaitMutator"
    /\ call[t].op = "acquire"
    /\ call[t].genCalls = 0

\* The acquire of task t has minted its identifier
Minted(t) ==
    /\ pc[t] = "awaitMutator"
    /\ call[t].op = "acquire"
    /\ call[t].genCalls > 0

\* C2: an identifier that was released is reissued only to a caller whose
\* version compares >= 0 with the version of its most recent release.
C2_RecyclingMonotonic ==
    [][\A t \in Tasks : \A id \in Ids :
          (Issues(t, id) /\ released[<<docOf[t], id>>] # 0)
              => /\ ~ Incomparable(call[t].version, released[<<docOf[t], id>>])
                 /\ cmpVersion(call[t].version, released[<<docOf[t], id>>]) >= 0
      ]_vars

\* C3: a pooled identifier is recycled only to a caller whose version is
\* strictly newer than the version of its pool entry, and a caller that
\* presents exactly the version an identifier was released with gets a
\* minted identifier from the generator.
C3_StrictGating ==
    [][\A t \in Tasks :
          Mutates(t) =>
              /\ \A i \in DOMAIN Pool(t) :
                    (call'[t].genCalls = 0 /\ call'[t].peerId = Pool(t)[i].id)
                        => /\ ~ Incomparable(call[t].version, Pool(t)[i].version)
                           /\ cmpVersion(call[t].version, Pool(t)[i].version) > 0
              /\ (\A i \in DOMAIN Pool(t) : Pool(t)[i].version = call[t].version)
                    => call'[t].genCalls > 0
      ]_vars

\* C4: an entry whose version is incomparable with the caller's is not the
\* one acquire returns; when every pooled entry is incomparable, acquire
\* calls the generator and leaves the pool as it is.
C4_IncomparableNeverRecycled ==
    [][\A t \in Tasks :
          Mutates(t) =>
              /\ \A i \in DOMAIN Pool(t) :
                    Incomparable(call[t].version, Pool(t)[i].version)
                        => call'[t].peerId # Pool(t)[i].id
              /\ (\A i \in DOMAIN Pool(t) :
                      Incomparable(call[t].version, Pool(t)[i].version))
                    => /\ call'[t].genCalls > 0
                       /\ call'[t].state.available = Pool(t)
      ]_vars

\* A caller has minted while the pool held entries, all incomparable with
\* its version.
C4_Witness ==
    \E t \in Tasks :
        /\ Minted(t)
        /\ call[t].state.available # << >>
        /\ \A i \in DOMAIN call[t].state.available :
              Incomparable(call[t].version, call[t].state.available[i].version)

C6_StaleDiscarded ==
    [][\A t, u \in Tasks :
          (/\ pc[t] = "drainPending"
           /\ pc'[t] = "awaitMutator"
           /\ u # t
           /\ docOf[u] = docOf[t]
           /\ Held(u)
           /\ lease[u].value \in DOMAIN call[t].state.active
           /\ now - call[t].state.active[lease[u].value].leasedAt
                  >= LEASE_STALE_AFTER_MS)
              => /\ lease[u].value \notin IdsOf(call'[t].state.available)
                 /\ \/ lease[u].value \notin DOMAIN call'[t].state.active
                    \/ call'[t].peerId = lease[u].value
      ]_vars

\* The storage state of document d
StoredState(d) == readState(stateKey[getStateKey(d)])

\* Task v staged a release and its process terminated before the flush ran
StagedThenTerminated(v) == later[v] = "cut"

\* The step in which a call of task u that began after a termination
\* completes
CompletesLater(u) ==
    /\ later[u] = "running"
    /\ later'[u] = "done"

WritesDrained(u, id) ==
    /\ pc[u] = "awaitMutator"
    /\ pc'[u] \in {"finalizeGet", "callbackDone"}
    /\ id \in IdsOf(call[u].pending.entries)

KeysOf(d) ==
    <<stateKey[getStateKey(d)], pendingKey[getPendingKey(d)],
      lockKey[getLockKey(d)], fenceKey[getFenceKey(d)]>>

\* C8: a step of acquire, release or reset on one document leaves the state,
\* pending buffer, lock record and fence counter of every other document
\* unchanged, and an acquire recycles only identifiers released under its
\* own document.
C8_Isolation ==
    [][\A t \in Tasks :
          /\ pc'[t] # pc[t]
                => \A d \in Docs \ {docOf[t]} : KeysOf(d)' = KeysOf(d)
          /\ \A id \in Ids :
                (Issues(t, id) /\ call'[t].genCalls = 0)
                    => released[<<docOf[t], id>>] # 0
      ]_vars

\* An acquire on one document has minted while the pool of another document
\* holds a released identifier that its version could have recycled.
C8_Witness ==
    \E t \in Tasks : \E d \in Docs \ {docOf[t]} :
        /\ Minted(t)
        /\ \E i \in DOMAIN StoredState(d).available :
              Recyclable(call[t].version, StoredState(d).available[i])

\* Task t is inside the callback of its runExclusive call
InCallback(t) ==
    pc[t] \in {"readState", "drainPending", "awaitMutator", "finalizeGet",
               "finalizeSet", "resetState", "resetLock", "resetFence",
               "resetPending"}

\* C9: the callbacks of two runExclusive calls of one process on one mutex
\* never overlap.
C9_Serialized ==
    \A t, u \in Tasks :
        (t # u /\ proc[t] = proc[u] /\ docOf[t] = docOf[u])
            => ~ (InCallback(t) /\ InCallback(u))

\* C9 as amended: they overlap only when lockTtlMs have passed since the
\* earlier of the two took the lock.
C9_SerializedWithinTtl ==
    \A t, u \in Tasks :
        (t # u /\ proc[t] = proc[u] /\ docOf[t] = docOf[u]
              /\ InCallback(t) /\ InCallback(u) /\ call[t].t0 <= call[u].t0)
            => now >= call[t].t0 + LOCK_TTL_MS

\* A second caller waits while the first is in its callback, after the clock
\* has advanced by less than the TTL.
C9_Witness ==
    \E t, u \in Tasks :
        /\ t # u
        /\ proc[t] = proc[u]
        /\ docOf[t] = docOf[u]
        /\ InCallback(t)
        /\ pc[u] = "waitBeforeRetry"
        /\ now > call[t].t0
        /\ now < call[t].t0 + LOCK_TTL_MS

\* C10: of processes that share only the storage, at most one is inside its
\* runExclusive callback on a lock key at any time.
C10_MutualExclusion ==
    \A t, u \in Tasks :
        (proc[t] # proc[u] /\ docOf[t] = docOf[u])
            => ~ (InCallback(t) /\ InCallback(u))

\* C11: a runExclusive call that ends in a timeout has not invoked its
\* callback, and when the lock was held by another unexpired token at each
\* of its attempts it has written no lock record.
C11_TimeoutRunsNothing ==
    \A t \in Tasks :
        trail[t].end = "timeout"
            => /\ ~ trail[t].ran
               /\ trail[t].allHeld => ~ trail[t].wrote

\* An acquire has timed out behind a lock that another token held at each
\* of its attempts, the last of them after the clock had advanced.
C11_Witness ==
    \E t \in Tasks :
        /\ trail[t].end = "timeout"
        /\ trail[t].allHeld
        /\ pc[t] = "failed"
        /\ now >= ACQUIRE_TIMEOUT_MS
        /\ \E u \in Tasks \ {t} : InCallback(u)

\* Task t is inside a call of acquirePeerId, release or resetPeerLeaseState
InCall(t) ==
    /\ alive[proc[t]]
    /\ pc[t] \notin {"off", "idle", "held", "failed", "released", "done", "dead"}

\* C12: a call that is in progress while the clock can still advance by the
\* acquire timeout comes to its end: it returns, or rejects with a timeout.
C12_BoundedWaiting ==
    \A t \in Tasks : (InCall(t) /\ ticks < MaxTicks) ~> ~ InCall(t)

\* A call has timed out behind the lock record of a terminated process.
C12_Witness ==
    \E t \in Tasks :
        /\ trail[t].end = "timeout"
        /\ pc[t] = "failed"
        /\ LockedByAnother(lockKey[getLockKey(docOf[t])], Token(t), now)
        /\ \E p \in Procs : ~ alive[p]


\* C13: every fence value written into a lock record, by an acquisition or
\* by a heartbeat, is greater than every fence value written before for the
\* same document id, whatever happened in between (release, expiry, a
\* terminated holder, resetPeerLeaseState).
C13_FenceMonotonic ==
    [][/\ \A t \in Tasks :
              (pc[t] = "writeLock" /\ pc'[t] = "confirmLock")
                  => call[t].fence > track[docOf[t]].fence
       /\ \A p \in Procs :
              (hb[p].pc = "writeLock" /\ hb'[p].pc # "writeLock" /\ alive'[p])
                  => hb[p].fence > track[hb[p].doc].fence]_vars

\* C14: once release has been called on a lease, no further release call
\* on that lease is accepted: none is handed the earlier call's promise,
\* and none stages the identifier again.
C14_ReleaseOnce ==
    \A t \in Tasks : ~ trail[t].again /\ trail[t].stages <= 1

\* The step in which release stages the id of task t's lease
Stages(t) == pc[t] = "stageSet" /\ pc'[t] = "tryAcquire"

\* The step in which a further release call on task t's lease is handed the
\* existing release task
Joins(t) == ~ trail[t].again /\ trail'[t].again

\* The step in which the flush of task t's release writes the lease state
FlushWrites(t) ==
    /\ call[t].op = "release"
    /\ pc[t] = "awaitMutator"
    /\ pc'[t] \in {"finalizeGet", "callbackDone"}

\* The entries of `id` in the pool stored for document d
PoolEntries(d, id) ==
    {i \in DOMAIN StoredState(d).available : StoredState(d).available[i].id = id}

Rejects(t) == trail[t].empty = "" /\ trail'[t].empty # ""

\* C16: a release call with an empty version changes neither the storage
\* nor the handle, so that isReleased() answers as before, and no
\* identifier is ever staged with an empty version.
C16_EmptyVersionRejected ==
    [][\A t \in Tasks :
          /\ Rejects(t) => /\ UNCHANGED <<storeVars, pc, call, lease>>
                           /\ isReleased(lease'[t]) = isReleased(lease[t])
          /\ Stages(t) => call[t].version # NoId
      ]_vars

\* A lease on which release with an empty version was rejected before any
\* release was staged has been released and flushed since.
C16_Witness ==
    \E t \in Tasks :
        /\ trail[t].empty = "idle"
        /\ trail[t].asked
        /\ pc[t] = "released"
        /\ lease[t].releaseState = "flushed"
        /\ lease[t].value \in IdsOf(StoredState(docOf[t]).available)

\* C17: isReleased() is false for a lease on which release was never
\* invoked with a valid version, and true from the end of the staging block
\* of a release call on, while the flush is waiting for the mutex, running
\* or done.
C17_ReleasedAtStaging ==
    \A t \in Tasks :
        /\ (lease[t].value # NoId /\ ~ trail[t].asked) => ~ isReleased(lease[t])
        /\ ( /\ call[t].op = "release"
             /\ pc[t] \notin {"held", "stageGet", "stageSet"} )
               => isReleased(lease[t])
        /\ pc[t] = "released" => isReleased(lease[t])

\* A release whose flush is still waiting for the mutex: the handle already
\* answers that it is released.
C17_Witness ==
    \E t \in Tasks :
        /\ call[t].op = "release"
        /\ pc[t] = "waitBeforeRetry"
        /\ lease[t].releaseState = "staged"
        /\ isReleased(lease[t])
        /\ lease[t].value \in IdsOf(PendingEntries(pendingKey[getPendingKey(docOf[t])]))

\* C18: an acquire that chooses its id after resetPeerLeaseState(docId) has
\* completed, no release having been invoked on the document since the
\* reset began, recycles nothing: its id comes from its generator.
C18_ResetForgets ==
    [][\A u \in Tasks :
          ( /\ Mutates(u)
            /\ track[docOf[u]].reset = "done"
            /\ call'[u].peerId # NoId )
              => call'[u].genCalls > 0
      ]_vars

\* The step in which task t's tryAcquire reads the lock record and goes on
Attempts(t) ==
    /\ pc[t] \in {"tryAcquire", "waitBeforeRetry"}
    /\ pc'[t] \notin {pc[t], "dead"}

\* C19: a lock record carries the time of its write plus LOCK_TTL_MS as its
\* expiry; an attempt that finds the record of a terminated process at or
\* after that expiry goes on to write its own record, and with no other
\* process alive it then enters its callback.
C19_StaleHolderRecovery ==
    [][\A t \in Tasks :
          /\ (pc[t] = "writeLock" /\ pc'[t] = "confirmLock")
                => Get(lockKey'[getLockKey(docOf[t])]).expiresAt = now + LOCK_TTL_MS
          /\ (Attempts(t) /\ CrashedHolderExpired(docOf[t]))
                => pc'[t] = "bumpFenceGet"
          /\ ( /\ pc[t] = "confirmLock"
               /\ pc'[t] \notin {"confirmLock", "dead"}
               /\ trail[t].took
               /\ \A p \in Procs \ {proc[t]} : ~ alive[p] )
                 => trail'[t].ran
      ]_vars

\* A caller is inside its callback on a lock that it took, LOCK_TTL_MS or
\* more after the start, from a process that terminated inside its own
\* callback.
C19_Witness ==
    \E t, u \in Tasks :
        /\ proc[t] # proc[u]
        /\ docOf[t] = docOf[u]
        /\ pc[u] = "dead"
        /\ trail[u].ran
        /\ trail[u].end = ""
        /\ InCallback(t)
        /\ Owned(lockKey[getLockKey(docOf[t])], Token(t))
        /\ trail[t].took

\* The ids that acquirePeerId's mutator of task t finds in available or in
\* active: those of the state read, drained and cleaned
Known(t) ==
    LET clean == cleanupState(
                     drainPendingReleases(pendingKey[getPendingKey(docOf[t])],
                                          call[t].state).state, now)
    IN  IdsOf(clean.available) \cup DOMAIN clean.active

\* C20: an acquire calls its generator at most MAX_GENERATION_ATTEMPTS
\* times; an id that it mints is the result of its last generator call, all
\* earlier results being known ids, and is itself in neither active nor
\* available; when the results run out as duplicates the acquire has no id
\* and fails with the generation error.
C20_MintExcludesKnown ==
    [][\A t \in Tasks :
          (Mutates(t) /\ pc'[t] # "dead") =>
              /\ call'[t].genCalls <= MAX_GENERATION_ATTEMPTS
              /\ (call'[t].genCalls > 0 /\ call'[t].peerId # NoId) =>
                    /\ call'[t].peerId \notin Known(t)
                    /\ call'[t].error = ""
                    /\ \E script \in GenScripts :
                          /\ genFn(script, call'[t].genCalls - 1) = call'[t].peerId
                          /\ \A k \in 0..(call'[t].genCalls - 2) :
                                genFn(script, k) \in Known(t)
              /\ call'[t].error = "duplicate" =>
                    /\ call'[t].peerId = NoId
                    /\ call'[t].genCalls = MAX_GENERATION_ATTEMPTS
                    /\ pc'[t] = "callbackDone"
              /\ call'[t].peerId = NoId => call'[t].error # ""
      ]_vars

\* An acquire has minted its id with the last generator call that it may
\* make, after another acquire has thrown.
C20_Witness ==
    \E t, u \in Tasks :
        /\ call[t].op = "acquire"
        /\ pc[t] = "awaitMutator"
        /\ call[t].genCalls = MAX_GENERATION_ATTEMPTS
        /\ call[t].peerId # NoId
        /\ pc[u] = "failed"
        /\ trail[u].end = "threw"

\* C21: an acquirePeerId call that fails its validation leaves the four
\* stored keys of every document as they are and enters no runExclusive,
\* and every acquirePeerId call that enters runExclusive carries a
\* non-empty version.
C21_ValidationFirst ==
    [][\A t \in Tasks :
          /\ (pc[t] = "idle" /\ pc'[t] = "failed")
                => /\ UNCHANGED <<storeVars, call, lease, hbVars>>
                   /\ ~ trail'[t].wrote
                   /\ ~ trail'[t].ran
          /\ (pc[t] = "idle" /\ pc'[t] = "tryAcquire" /\ call'[t].op = "acquire")
                => call'[t].version # NoId
      ]_vars

\* An acquirePeerId call failed its validation while the document had a
\* stored state with an active lease.
C21_Witness ==
    \E t, u \in Tasks :
        /\ pc[t] = "failed"
        /\ trail[t].end = "invalid"
        /\ pc[u] = "held"
        /\ docOf[t] = docOf[u]
        /\ lease[u].value \in DOMAIN StoredState(docOf[u]).active

\* Task u holds a lease on which release was never invoked and which is
\* younger than LEASE_STALE_AFTER_MS
Reserved(u) ==
    /\ pc[u] = "held"
    /\ ~ trail[u].asked
    /\ lease[u].value \in DOMAIN StoredState(docOf[u]).active
        => now - StoredState(docOf[u]).active[lease[u].value].leasedAt
               < LEASE_STALE_AFTER_MS

\* C22: no acquire chooses, from the pool or from its generator, the
\* identifier of a lease on the same document that was never released and
\* is younger than LEASE_STALE_AFTER_MS.
C22_UnreleasedStaysReserved ==
    [][\A t, u \in Tasks : \A id \in Ids :
          (t # u /\ docOf[t] = docOf[u] /\ Reserved(u) /\ lease[u].value = id)
              => ~ Issues(t, id)
      ]_vars

\* C23: in the LeaseState stored under the state key of any document, no
\* identifier is both in available and in active, and available has one
\* entry per identifier at most.
C23_DisjointAtRest ==
    \A d \in Docs :
        IsSome(stateKey[getStateKey(d)]) =>
            /\ IdsOf(StoredState(d).available) \cap DOMAIN StoredState(d).active = {}
            /\ Cardinality(IdsOf(StoredState(d).available))
                   = Len(StoredState(d).available)

\* A stored state with a pooled identifier and an active one, written by
\* the flush of a release.
C23_Witness ==
    \E t \in Tasks :
        /\ pc[t] = "released"
        /\ StoredState(docOf[t]).available # << >>
        /\ DOMAIN StoredState(docOf[t]).active # {}

\* C24: the active entry of an identifier whose holder has never invoked
\* release, and whose lease is younger than LEASE_STALE_AFTER_MS, stays in
\* the stored state through every step of the other callers.
C24_ReleaseOwnership ==
    [][\A h \in Tasks :
          ( /\ Reserved(h)
            /\ Reserved(h)'
            /\ lease[h].value \in DOMAIN StoredState(docOf[h]).active )
              => lease[h].value \in DOMAIN StoredState(docOf[h])'.active
      ]_vars

\* The entries of a sequence, as a set
EntriesOf(seq) == {seq[i] : i \in DOMAIN seq}

\* The pending buffer of document d, as a set of entries
Buffer(d) == EntriesOf(PendingEntries(pendingKey[getPendingKey(d)]))

\* The entries that are in the pending buffer as task t's finalize reads
\* it and were not in the buffer as its drain read it
StagedSinceDrain(t) ==
    Buffer(docOf[t]) \ EntriesOf(PendingEntries(call[t].pending.snapshot))

\* C25: an entry that is in the pending buffer when finalize reads it and
\* was not there at the drain read is in the buffer that finalize leaves;
\* finalize removes the key only when the buffer is as the drain read it, or
\* when every entry in it was folded; otherwise it writes the buffer it read
\* without entries that equal a folded one in id and version, and nothing
\* else.
C25_FinalizeKeepsStaged ==
    [][\A t \in Tasks :
          /\ (pc[t] = "finalizeGet" /\ pc'[t] = "callbackDone")
                => /\ call'[t].finalize = None
                   /\ pendingKey' = pendingKey
          /\ (pc[t] = "finalizeGet" /\ pc'[t] = "finalizeSet")
                => /\ IsSome(call'[t].finalize)
                   /\ StagedSinceDrain(t) \subseteq EntriesOf(Get(call'[t].finalize))
                   /\ EntriesOf(Get(call'[t].finalize)) \subseteq Buffer(docOf[t])
                   /\ Buffer(docOf[t]) \ EntriesOf(Get(call'[t].finalize))
                         \subseteq EntriesOf(call[t].pending.entries)
                   /\ Get(call'[t].finalize) = << >>
                         => \/ pendingKey[getPendingKey(docOf[t])] = call[t].pending.snapshot
                            \/ Buffer(docOf[t]) \subseteq EntriesOf(call[t].pending.entries)
          /\ (pc[t] = "finalizeSet" /\ pc'[t] = "callbackDone")
                => Buffer(docOf[t])' = EntriesOf(Get(call[t].finalize))
      ]_vars

\* A critical section that folded one release is about to write back a
\* buffer that holds a release staged by another process since its drain
\* read.
C25_Witness ==
    \E t, u \in Tasks :
        /\ proc[u] # proc[t]
        /\ lease[u].releaseState = "staged"
        /\ lease[u].value \in {e.id : e \in StagedSinceDrain(t)}
        /\ pc[t] = "finalizeSet"
        /\ call[t].pending.entries # << >>
        /\ IsSome(call[t].finalize)
        /\ StagedSinceDrain(t) # {}
        /\ StagedSinceDrain(t) \subseteq EntriesOf(Get(call[t].finalize))

\* C26: the write of a stage adds its own entry to the pending buffer as it
\* is at that moment: it brings back no entry that a critical section has
\* folded and removed since the stage read the buffer, and it drops no entry
\* of another identifier; the write of a finalize drops no entry that its
\* critical section did not fold.
C26_NoLostNoResurrected ==
    [][\A u \in Tasks :
          /\ Stages(u) =>
                /\ Buffer(docOf[u])' \ {CachedPeerId(lease[u].value, call[u].version)}
                      \subseteq Buffer(docOf[u])
                /\ {e \in Buffer(docOf[u]) : e.id # lease[u].value}
                      \subseteq Buffer(docOf[u])'
          /\ (pc[u] = "finalizeSet" /\ pc'[u] = "callbackDone") =>
                Buffer(docOf[u]) \ EntriesOf(call[u].pending.entries)
                    \subseteq Buffer(docOf[u])'
      ]_vars

\* C27: folding the pending buffer into the state that a critical section
\* has read takes each pending id out of active and leaves exactly one
\* available entry for it, with the version the buffer holds for it, and
\* folding the same buffer into the result changes nothing.
C27_DrainIdempotentMerge ==
    \A t \in Tasks :
        pc[t] = "drainPending" =>
            LET raw == pendingKey[getPendingKey(docOf[t])]
                once == drainPendingReleases(raw, call[t].state).state
                twice == drainPendingReleases(raw, once).state
            IN  /\ twice = once
                /\ \A e \in EntriesOf(PendingEntries(raw)) :
                      /\ e.id \notin DOMAIN once.active
                      /\ Cardinality({i \in DOMAIN once.available :
                                         once.available[i].id = e.id}) = 1
                      /\ e \in EntriesOf(once.available)

\* A critical section has folded a buffer of two entries into a state that
\* held the one id as active and the other as available with another version.
C27_Witness ==
    \E t \in Tasks :
        /\ pc[t] = "awaitMutator"
        /\ Len(call[t].pending.entries) = NumIds
        /\ \E e, f \in EntriesOf(call[t].pending.entries) :
              /\ e.id \in DOMAIN StoredState(docOf[t]).active
              /\ \E g \in EntriesOf(StoredState(docOf[t]).available) :
                    g.id = f.id /\ g.version # f.version
              /\ f \in EntriesOf(call[t].state.available)
              /\ e.id \notin {g.id : g \in EntriesOf(StoredState(docOf[t]).available)}

\* C28: stage is a read-modify-write of the pending buffer of its document.
\* What it writes holds exactly one entry for its id, with its version, and
\* the entries of the other ids as it read them; the write puts exactly that
\* into the buffer; neither step touches the lease state, the lock record or
\* the fence.
C28_StageUpserts ==
    [][\A t \in Tasks :
          /\ (pc[t] = "stageGet" /\ pc'[t] = "stageSet") =>
                LET old == PendingEntries(pendingKey[getPendingKey(docOf[t])])
                    new == call'[t].stage
                IN  /\ Cardinality({i \in DOMAIN new : new[i].id = lease[t].value}) = 1
                    /\ CachedPeerId(lease[t].value, call[t].version) \in EntriesOf(new)
                    /\ {e \in EntriesOf(new) : e.id # lease[t].value}
                          = {e \in EntriesOf(old) : e.id # lease[t].value}
                    /\ UNCHANGED <<stateKey, pendingKey, lockKey, fenceKey>>
          /\ Stages(t) =>
                /\ PendingEntries(pendingKey'[getPendingKey(docOf[t])]) = call[t].stage
                /\ \A d \in Docs \ {docOf[t]} : pendingKey'[d] = pendingKey[d]
                /\ UNCHANGED <<stateKey, lockKey, fenceKey>>
      ]_vars

\* A release has read a buffer that holds an entry of its id with another
\* version and the entry of another id: what it is about to write holds its
\* entry with the new version, and the other entry.
C28_Witness ==
    \E t \in Tasks :
        /\ pc[t] = "stageSet"
        /\ \E e \in Buffer(docOf[t]) :
              e.id = lease[t].value /\ e.version # call[t].version
        /\ \E e \in Buffer(docOf[t]) :
              e.id # lease[t].value /\ e \in EntriesOf(call[t].stage)
        /\ CachedPeerId(lease[t].value, call[t].version) \in EntriesOf(call[t].stage)
        /\ Len(call[t].stage) = NumIds

\* C29: a release writes its pending entry before its first attempt on the
\* mutex: the steps of the stage leave the lock record and the fence alone,
\* and after the write the entry is in the buffer, whoever holds the lock,
\* while the flush has neither written a lock record nor started. The flush
\* starts only in the step in which its tryAcquire reads its own token back
\* from the lock record, and it takes its steps on the state and the buffer
\* only after that.
C29_StagesBeforeMutex ==
    [][\A t \in Tasks :
          /\ (pc[t] = "stageGet" /\ pc'[t] = "stageSet") =>
                UNCHANGED <<lockKey, fenceKey>>
          /\ Stages(t) =>
                /\ CachedPeerId(lease[t].value, call[t].version)
                      \in Buffer(docOf[t])'
                /\ ~ trail'[t].ran
                /\ ~ trail'[t].wrote
                /\ UNCHANGED <<lockKey, fenceKey>>
          /\ (call[t].op = "release" /\ pc[t] # "readState" /\ pc'[t] = "readState") =>
                /\ Owned(lockKey'[getLockKey(docOf[t])], Token(t))
                /\ trail'[t].ran
                /\ lease[t].releaseState = "staged"
          /\ (/\ call[t].op = "release"
              /\ pc[t] \in {"readState", "drainPending", "awaitMutator",
                             "finalizeGet", "finalizeSet"}
              /\ pc'[t] # pc[t]
              /\ pc'[t] # "dead") => trail[t].ran
      ]_vars

\* The flush of a staged release has timed out without starting, behind a
\* lock record of another caller, and the id of the lease is in the buffer.
C29_Witness ==
    \E t \in Tasks :
        /\ trail[t].failed
        /\ ~ trail[t].ran
        /\ lease[t].value \in {e.id : e \in Buffer(docOf[t])}
        /\ IsSome(lockKey[getLockKey(docOf[t])])
        /\ \E u \in Tasks \ {t} : Get(lockKey[getLockKey(docOf[t])]).token[1] = u

\* The step in which task t writes or removes the lease state of its
\* document: writeState of withState, or the first removeItem of a reset
WritesLeaseState(t) ==
    \/ pc[t] = "awaitMutator" /\ pc'[t] \in {"finalizeGet", "callbackDone"}
    \/ pc[t] = "resetState" /\ pc'[t] = "resetLock"

\* C30: the lease state of a document changes only in a writing step of a
\* caller, and a caller takes that step only while the lock record of the
\* document carries its token.
C30_WritesUnderMutex ==
    [][/\ \A d \in Docs :
             stateKey'[getStateKey(d)] # stateKey[getStateKey(d)] =>
                 \E t \in Tasks : docOf[t] = d /\ WritesLeaseState(t)
       /\ \A t \in Tasks :
             WritesLeaseState(t) => Owned(lockKey[getLockKey(docOf[t])], Token(t))
      ]_vars

\* The step in which the critical section of task t's call ends without an
\* error: after writeState when nothing was drained, or after finalize
EndsCriticalSection(t) ==
    /\ pc[t] \in {"awaitMutator", "finalizeGet", "finalizeSet"}
    /\ pc'[t] = "callbackDone"

\* The id of task t's lease was handed out again after a drain had folded
\* t's release, and the later holder has staged a release of it with the
\* same version that has not been flushed
StagedAnew(t) ==
    \E u \in Tasks \ {t} :
        /\ docOf[u] = docOf[t]
        /\ lease[u].value = lease[t].value
        /\ lease[u].releaseState = "staged"
        /\ released[<<docOf[t], lease[t].value>>] = call[t].version

\* C31: the critical section that flushes a release writes a state in which
\* the id is not active and has exactly one available entry, with the
\* version of the release, and when it ends the pending buffer does not
\* hold the entry (id, version) that the release staged: an equal entry is
\* there only if a later holder of the id has staged it since.
C31_ReleasePostcondition ==
    [][\A t \in Tasks :
          /\ FlushWrites(t) =>
                /\ lease[t].value \notin DOMAIN StoredState(docOf[t])'.active
                /\ Cardinality({i \in DOMAIN StoredState(docOf[t])'.available :
                       StoredState(docOf[t])'.available[i].id = lease[t].value}) = 1
                /\ CachedPeerId(lease[t].value, call[t].version)
                      \in EntriesOf(StoredState(docOf[t])'.available)
          /\ (call[t].op = "release" /\ EndsCriticalSection(t)) =>
                \/ CachedPeerId(lease[t].value, call[t].version)
                      \notin Buffer(docOf[t])'
                \/ StagedAnew(t)
      ]_vars

\* The critical section of a flush has ended: it folded the entry that its
\* release staged, the stored state has the id available with that version
\* and not active, and the buffer no longer holds the entry.
C31_Witness ==
    \E t \in Tasks :
        /\ pc[t] = "callbackDone"
        /\ call[t].op = "release"
        /\ CachedPeerId(lease[t].value, call[t].version)
              \in EntriesOf(call[t].pending.entries)
        /\ CachedPeerId(lease[t].value, call[t].version)
              \in EntriesOf(StoredState(docOf[t]).available)
        /\ lease[t].value \notin DOMAIN StoredState(docOf[t]).active
        /\ CachedPeerId(lease[t].value, call[t].version) \notin Buffer(docOf[t])
        /\ \E u \in Tasks : proc[u] # proc[t] /\ pc[u] = "held"

\* C32: a state key that is present holds a state with an available entry
\* or an active entry; a state with neither is never stored.
C32_NeverPersistedEmpty ==
    \A d \in Docs :
        IsSome(stateKey[getStateKey(d)]) =>
            \/ Get(stateKey[getStateKey(d)]).available # << >>
            \/ DOMAIN Get(stateKey[getStateKey(d)]).active # {}

\* A reset has just removed the state key of a document on which a caller
\* holds a lease: nothing is stored for the document.
C32_Witness ==
    \E t, u \in Tasks :
        /\ t # u
        /\ docOf[t] = docOf[u]
        /\ call[t].op = "reset"
        /\ pc[t] = "resetLock"
        /\ pc[u] = "held"
        /\ ~ IsSome(stateKey[getStateKey(docOf[t])])

\* C33: the release of the mutex at the end of a call removes the lock
\* record only while the record carries the token of the call, and a call
\* that finds the record absent or with another token leaves it as it is.
C33_ReleaseOnlyOwned ==
    [][\A t \in Tasks :
          /\ (pc[t] = "releaseRemove" /\ pc'[t] \notin {"releaseRemove", "dead"}) =>
                Owned(lockKey[getLockKey(docOf[t])], Token(t))
          /\ (/\ pc[t] = "callbackDone"
              /\ pc'[t] \notin {"callbackDone", "releaseRemove", "dead"}) =>
                /\ ~ Owned(lockKey[getLockKey(docOf[t])], Token(t))
                /\ lockKey' = lockKey
      ]_vars

\* C34: a heartbeat writes the lock record only over a record that carries
\* its token, and a heartbeat that reads a record that is absent or carries
\* another token writes nothing and stops.
C34_HeartbeatTokenGuarded ==
    [][\A p \in Procs :
          /\ (hb[p].pc = "writeLock" /\ hb'[p].pc = "idle" /\ alive'[p]) =>
                Owned(lockKey[getLockKey(hb[p].doc)], hb[p].token)
          /\ (hb[p].pc = "idle" /\ hb'[p].pc = "bumpFenceGet") =>
                /\ Owned(lockKey[getLockKey(hb'[p].doc)], hb'[p].token)
                /\ UNCHANGED storeVars
          /\ \A d \in Docs :
                (/\ hb'[p] = hb[p]
                 /\ IsSome(heartbeat[<<p, d>>])
                 /\ ~ IsSome(heartbeat'[<<p, d>>])
                 /\ pc' = pc /\ alive' = alive) => UNCHANGED storeVars
      ]_vars

\* A storage key of document d holds malformed data: a state or a pending
\* buffer with an entry that has no id and version, a lock record whose
\* token is not a string
CorruptKeys(d) ==
    {k \in {"state", "pending", "lock"} :
        \/ k = "state" /\ stateKey[getStateKey(d)] # None
                       /\ readState(stateKey[getStateKey(d)]) # Get(stateKey[getStateKey(d)])
        \/ k = "pending" /\ pendingKey[getPendingKey(d)] # None
                         /\ PendingEntries(pendingKey[getPendingKey(d)])
                               # Get(pendingKey[getPendingKey(d)])
        \/ k = "lock" /\ Malformed(lockKey[getLockKey(d)])}

\* C35: no call throws inside its critical section because of malformed
\* data, and when an acquire or a release has returned, none of the state
\* key, the pending key and the lock key of its document holds malformed
\* data any more.
C35_CorruptionDiscarded ==
    \A t \in Tasks :
        /\ trail[t].end # "threw"
        /\ trail[t].end = "returned" => CorruptKeys(docOf[t]) = {}

\* Task t waits for the lock before its deadline, its process is alive, and
\* every other caller on the document has finished its call or has not
\* made one
WaitsBehindFinished(t) ==
    /\ pc[t] = "waitBeforeRetry"
    /\ alive[proc[t]]
    /\ now < call[t].deadline
    /\ \A u \in Tasks \ {t} :
          docOf[u] = docOf[t] => pc[u] \in {"off", "held", "failed", "done"}
    /\ \E u \in Tasks \ {t} : docOf[u] = docOf[t] /\ trail[u].end = "returned"

\* C36: a caller that waits for the lock when the holder's call has ended
\* before the waiter's deadline, with no other contender, gets the lock and
\* starts its callback (unless its process ends first): it does not time out.
C36_WaiterProgress ==
    \A t \in Tasks :
        WaitsBehindFinished(t) ~> (trail[t].ran \/ ~ alive[proc[t]])

\* A caller waits before its deadline, the holder has returned and the lock
\* record is gone.
C36_Witness ==
    \E t \in Tasks :
        /\ WaitsBehindFinished(t)
        /\ ~ IsSome(lockKey[getLockKey(docOf[t])])
        /\ \E u \in Tasks \ {t} : proc[u] # proc[t] /\ pc[u] = "held"

\* The lifecycle hook on the lease of the first of two callers of one
\* process: the hook alone calls release, the document advances, and a
\* flush can time out behind the other caller.
InitPage == InitWith(1..(NumTasks - 2), OneProc, OneDoc)

NextPage ==
    \/ \E t \in Tasks : MutexStep(t)
    \/ \E t \in Tasks : BeginAcquire(t, 1)
    \/ \E t \in Tasks : StageGet(t)
    \/ \E t \in Tasks : StageSet(t)
    \/ \E t \in Tasks : ReadState(t)
    \/ \E t \in Tasks : DrainAndMutate(t, OneScript)
    \/ \E t \in Tasks : WriteState(t)
    \/ \E t \in Tasks : FinalizeGet(t)
    \/ \E t \in Tasks : FinalizeSet(t)
    \/ Attach(1)
    \/ Detach(1)
    \/ Edit(1)
    \/ VisibilityChange(1)
    \/ PageShow(1)
    \/ PageHide(1)
    \/ Tick(ACQUIRE_TIMEOUT_MS)

SpecPage == InitPage /\ [][NextPage]_vars

\* The version a pagehide is to release with: the frontiers at the first
\* hidden visibilitychange since the last pageshow, or the current ones
AtFirstHidden == IF page.firstHidden # NoId THEN page.firstHidden ELSE page.frontiers

\* The same with the frontiers the hook first staged since the last
\* pageshow, at a hidden visibilitychange with the handle not released or at
\* a pagehide
AtFirstStaged == IF page.firstStaged # NoId THEN page.firstStaged ELSE page.frontiers

\* C37 as stated: while attached, each pagehide invokes release exactly once
\* with the version captured at the first hidden visibilitychange since the
\* last pageshow, or the current frontiers if there was none; no other
\* event, and no event after detach(), invokes release.
C37_PageHideReleases ==
    [][page'.events # page.events =>
          IF page.attached = "yes" /\ page'.event = "pagehide"
          THEN page'.calls = page.calls + 1 /\ page'.last = AtFirstHidden
          ELSE page'.calls = page.calls]_vars

\* C37 amended: while attached, each pagehide invokes release exactly once
\* with the frontiers at the first event since the last pageshow that was a
\* pagehide or a hidden visibilitychange at which the handle was not
\* released; no other event, and no event after detach(), invokes release.
C37_PageHideReleasesStaged ==
    [][page'.events # page.events =>
          IF page.attached = "yes" /\ page'.event = "pagehide"
          THEN page'.calls = page.calls + 1 /\ page'.last = AtFirstStaged
          ELSE page'.calls = page.calls]_vars

\* A pagehide has released with the frontiers staged at an earlier hidden
\* visibilitychange although the document has advanced since, and a
\* pagehide after detach() has released nothing.
C37_Witness ==
    /\ page.attached = "detached"
    /\ page.event = "pagehide"
    /\ page.calls = 1
    /\ page.last < page.frontiers
    /\ page.last = page.firstHidden

\* The acquire of task t has thrown inside its callback and runExclusive has
\* not returned yet
FailedInCallback(t) == call[t].op = "acquire" /\ call[t].error # ""

\* C38: an acquire that fails inside the critical section (the generator is
\* exhausted or returns an empty id) writes neither the LeaseState nor the
\* pending buffer, so the entries it drained in memory stay in the buffer,
\* and when it rejects (its process still alive) the lock record is not its
\* own any more.
C38_FailedAcquireWritesNothing ==
    [][\A t \in Tasks :
          /\ (pc[t] = "drainPending" /\ FailedInCallback(t)')
                => (stateKey' = stateKey /\ pendingKey' = pendingKey)
          /\ (FailedInCallback(t) /\ pc'[t] # pc[t] /\ alive'[proc[t]])
                => /\ stateKey' = stateKey
                   /\ pendingKey' = pendingKey
                   /\ pc'[t] \in {"releaseRemove", "failed"}
                   /\ pc'[t] = "failed"
                        => ~ Owned(lockKey'[getLockKey(docOf[t])], Token(t))]_vars

\* An acquire has thrown in its callback after it drained a staged entry it
\* could not recycle, and is about to remove its lock record: the entry is
\* still in the pending buffer and not in the stored LeaseState.
C38_Witness ==
    \E t \in Tasks :
        /\ pc[t] = "releaseRemove"
        /\ FailedInCallback(t)
        /\ call[t].pending.entries # << >>
        /\ EntriesOf(call[t].pending.entries) \subseteq Buffer(docOf[t])
        /\ StoredState(docOf[t]).available = << >>

\* The step in which the flush of task t's release rejects: runExclusive
\* throws its timeout
FlushRejects(t) ==
    /\ call[t].op = "release"
    /\ trail[t].end # "timeout"
    /\ trail'[t].end = "timeout"

\* A step of the flush of task t's release before its critical section
FlushWaits(t) ==
    /\ call[t].op = "release"
    /\ pc[t] \in {"tryAcquire", "waitBeforeRetry", "bumpFenceGet", "bumpFenceSet",
                  "writeLock", "confirmLock"}
    /\ (pc'[t] # pc[t] \/ call'[t] # call[t] \/ trail'[t] # trail[t])

\* The handle of task t after a step: idle, without a release task, so that
\* release stages and flushes again
Retryable(t) ==
    /\ ~ isReleased(lease'[t])
    /\ ~ ReusesReleaseTask(lease'[t])
    /\ pc'[t] = "held"

\* C39 as stated: when the flush of a release rejects, the handle is idle
\* again, a later release call stages again, and the entry the failed call
\* staged is in the pending buffer.
C39_FailedFlushKeepsEntry ==
    [][\A t \in Tasks :
          /\ FlushRejects(t)
                => /\ Retryable(t)
                   /\ CachedPeerId(lease[t].value, call[t].version)
                          \in Buffer(docOf[t])'
          /\ (Stages(t) /\ trail[t].stages > 0) => trail[t].failed]_vars

\* C39 amended: when the flush of a release rejects, the handle is idle
\* again and a later release call stages again; the failed call does not
\* write the pending buffer after it has staged, so the entry is gone only
\* if another caller has drained or overwritten it.
C39_FailedFlushRetryable ==
    [][\A t \in Tasks :
          /\ FlushRejects(t) => Retryable(t)
          /\ FlushWaits(t) => pendingKey' = pendingKey
          /\ (Stages(t) /\ trail[t].stages > 0) => trail[t].failed]_vars

\* A release whose flush timed out was called again, without a further
\* call that joined it, and has staged its id a second time and flushed.
C39_Witness ==
    \E t \in Tasks :
        /\ trail[t].stages = 2
        /\ ~ trail[t].again
        /\ ~ trail[t].failed
        /\ pc[t] = "released"
        /\ lease[t].releaseState = "flushed"
        /\ trail[t].end = "returned"

\* The fence counter of document d is at least the fence of its lock record,
\* if a well-formed record is there
FenceCovers(d) ==
    LET record == readLock(lockKey[getLockKey(d)])
    IN  IsSome(record)
          => /\ IsSome(fenceKey[getFenceKey(d)])
             /\ Get(fenceKey[getFenceKey(d)]) >= Get(record).fence

\* The step in which task t's tryAcquire writes a lock record where none is
WritesFirstRecord(t) ==
    /\ pc[t] = "writeLock"
    /\ pc'[t] = "confirmLock"
    /\ ~ IsSome(lockKey[getLockKey(docOf[t])])

\* C40: while a lock record written by the mutex is present, the fence
\* counter stored beside it is at least the record's fence; and a record
\* written where none is (the last one was removed by release or discarded
\* as corrupt) carries a fence greater than every fence written before.
C40_FenceCounterCovers ==
    [][/\ \A d \in Docs : FenceCovers(d)'
       /\ \A t \in Tasks :
              WritesFirstRecord(t) => call[t].fence > track[docOf[t]].fence]_vars

====
